---- MODULE Spec2Model ----
(***************************************************************************)
(* Verification model of the mesh agent's reconciliation engine:           *)
(*   - DeployWireguardConfig, the per-pass tunnel and route reconciler     *)
(*   - the polling driver that diffs the fetched peer list against the     *)
(*     device cache and hands the diff to DeployWireguardConfig            *)
(*   - the exit-node NAT setup steps (nftables table, chains, rules)       *)
(* Every operator that models code carries the name of the function it     *)
(* models; the caller-side pieces that live outside the sources at hand    *)
(* are marked as such where they are defined.                              *)
(***************************************************************************)
EXTENDS Integers, Sequences, FiniteSets, TLC

VARIABLES
    \* ---- agent (Nexodus struct) ----
    wgPeers,          \* ax.wgConfig.Peers: sequence of wgPeerConfig
    TunnelIP,         \* ax.TunnelIP: the address assigned by IPAM
    ifaceAddr,        \* live IPv4 address of ax.tunnelIface (NoAddr when none)
    securityGroupId,  \* ax.securityGroup.Id
    GOOS,             \* runtime.GOOS
    userspaceMode,    \* ax.userspaceMode
    \* ---- node network state the agent drives ----
    routesOS,         \* keys with a route in the OS routing table
    routesUS,         \* keys with a route in the userspace netstack
    tunnels,          \* WireGuard peer entries of the device: set of wgPeerConfig
    fwApplied,        \* security group whose rules are installed ("" when none)
    \* ---- the current/last call of DeployWireguardConfig ----
    pc,               \* "call": arguments chosen, not yet run; "return": run
    newPeers,         \* argument newPeers
    firstTime,        \* argument firstTime
    calls,            \* ordered log of the calls made by the last pass
    err,              \* value returned by the last pass ("nil" or the failing step)
    \* ---- polling driver ----
    deviceCache,      \* ax.deviceCache: the devices applied so far
    converged,        \* a first pass has completed
    lastFetched,      \* peer listing fetched by the last poll ({} before the first)
    polls,            \* polls made so far
    healthyRepeats,   \* consecutive polls with an unchanged listing and no failing command
    inFlight,         \* the passes started and not yet returned: set of [poll, fetched]
    \* ---- exit-node NAT setup ----
    phyIface,         \* the node's physical egress interface
    nfTables,         \* nftables tables present
    nfChains,         \* nftables chains present in the exit-node table
    nfRules,          \* nftables rules present in the exit-node table
    nfLog,            \* commands issued by the last exit-node setup, with outcome
    exitErr,          \* value returned by the last exit-node setup
    \* ---- NAT detection ----
    natEnv,           \* what the network answers to the probes of one IsNAT call
    natResult,        \* value returned by the last IsNAT call
    \* ---- OS route functions ----
    routeCall,        \* the last AddRoute / DeleteRoute call and what it returned
    routeQuery,       \* the last RouteExists call and what it returned
    \* ---- exit-node origin tracker ----
    exitNodeOrigins,  \* nx.exitNode.exitNodeOrigins: sequence of wgPeerConfig
    exitNodeExists,   \* nx.exitNode.exitNodeExists
    originLast,       \* history: for each key ever passed, the peer of the latest call
    originUpdated,    \* history: the keys passed more than once
    originProcs,      \* the goroutines inside updateExitNodeOrigins: G -> frame
    \* ---- interface setup ----
    ifaceRun,         \* the last interface setup: its commands in order and what it returned
    \* ---- security-group translator ----
    sgRules,          \* ax.securityGroup: the rules of the assigned group
    sgInstalled,      \* the firewall rules installed for the security group
    sgPrevInstalled,  \* history: the rules installed before the last translator step
    sgErr,            \* value returned by the last translator step
    sgPc,             \* "idle", "assigned" (a group was handed over) or "applied"
    \* ---- API server: users and their organizations ----
    db,               \* the database and the IPAM service: [users, orgs, sgs, ns, prefixes]
    userLast,         \* the last API call that returned: what it was and what it answered
    userCalls,        \* API calls made so far
    userProcs,        \* the requests inside createUserIfNotExists: G -> frame
    \* ---- API authorization policy ----
    polInput,         \* the input document of one policy query: [path1, method, token]
    polResult,        \* the decision of the last policy query: [ran, allow]
    \* ---- OIDC agent: one browser session ----
    session,          \* the stored session: [token, id_token], "none" for an absent key
    cookies,          \* the login cookies of the browser: [state, nonce], "none" when absent
    oidcLast,         \* the last request answered: what it was and what it answered
    oidcCalls         \* requests made so far

agentVars  == <<wgPeers, TunnelIP, ifaceAddr, securityGroupId, GOOS, userspaceMode>>
nodeVars   == <<routesOS, routesUS, tunnels, fwApplied>>
passVars   == <<pc, newPeers, firstTime, calls, err>>
driverVars == <<deviceCache, converged, lastFetched, polls, healthyRepeats, inFlight>>
exitVars   == <<phyIface, nfTables, nfChains, nfRules, nfLog, exitErr>>
natVars    == <<natEnv, natResult>>
routeVars  == <<routeCall, routeQuery>>
originVars == <<exitNodeOrigins, exitNodeExists, originLast, originUpdated, originProcs>>
ifaceVars  == <<ifaceRun>>
sgVars     == <<sgRules, sgInstalled, sgPrevInstalled, sgErr, sgPc>>
userVars   == <<db, userLast, userCalls, userProcs>>
polVars    == <<polInput, polResult>>
oidcVars   == <<session, cookies, oidcLast, oidcCalls>>
extraVars  == <<polVars, oidcVars>>
auxVars    == <<natVars, routeVars, originVars, ifaceVars, sgVars, userVars, extraVars>>
vars       == <<agentVars, nodeVars, passVars, driverVars, exitVars, auxVars>>

----------------------------------------------------------------------------
(* Bounds of the model *)

MaxEndpoint == 2      \* endpoints a peer may move between: 1..MaxEndpoint
MaxCalls == 3         \* API calls made one after the other in one behaviour
MaxNewPeers == 2      \* longest newPeers argument drawn for a direct call
MaxPolls    == 3      \* polling cycles followed

----------------------------------------------------------------------------
(* Values *)

wireguardPubKey == "self"                  \* ax.wireguardPubKey, the local node's key
PeerKeys        == {"A", "B", "C"}         \* public keys of the other devices
Keys            == {wireguardPubKey} \cup PeerKeys
KeyOrder        == <<"self", "A", "B", "C">>   \* listing order of the control plane

NoAddr    == "<nil>"                       \* net.IP(nil).String(): no IPv4 address found
Addrs     == {"100.100.0.1", "100.100.0.2"}    \* tunnel addresses IPAM may assign
Endpoints == 1..MaxEndpoint
Linux     == "linux"                       \* Linux.String()
Darwin    == "darwin"                      \* Darwin.String()

\* public.ModelsDevice, the fields DeployWireguardConfig and the driver read
Device(id, k, e) == [Id |-> id, PublicKey |-> k, Endpoint |-> e]
\* wgPeerConfig
PeerConfig(k, e) == [PublicKey |-> k, Endpoint |-> e]

\* one entry of the call log: the function called, the key of the peer it concerns
\* (NoKey for the calls that concern no peer) and whether its OS commands succeeded
NoKey == "-"
Call(op, k, ok) == [op |-> op, key |-> k, ok |-> ok]

RECURSIVE SeqsUpTo(_, _)
SeqsUpTo(S, n) ==
    IF n = 0 THEN {<<>>}
    ELSE LET shorter == SeqsUpTo(S, n - 1)
         IN  shorter \cup {Append(s, x) : s \in {t \in shorter : Len(t) = n - 1}, x \in S}

\* positions of the log entries of one kind
Positions(log, op) == {i \in 1..Len(log) : log[i].op = op}
PositionsOf(log, op, k) == {i \in 1..Len(log) : log[i].op = op /\ log[i].key = k}
PeerOps == {"handlePeerRoute", "handlePeerTunnel"}
PeerPositions(log) == {i \in 1..Len(log) : log[i].op \in PeerOps}

\* the members of S in listing order
KeysInOrder(S) == SelectSeq(KeyOrder, LAMBDA k : k \in S)

\* outcomes of the OS commands of one pass
Outcomes == [ifaceOk : BOOLEAN, sgOk : BOOLEAN, routeOk : BOOLEAN, tunnelOk : BOOLEAN,
             deleteOk : BOOLEAN]

----------------------------------------------------------------------------
(* The node state one pass works on:                                       *)
(*   [Peers, ifaceAddr, routesOS, routesUS, tunnels, fwApplied, calls]     *)

Logged(ax, op, k, ok) == [ax EXCEPT !.calls = Append(@, Call(op, k, ok))]

\* getIPv4Iface(ifname).String(): the first IPv4 address of the interface, "<nil>" if none
getIPv4Iface(ax) == ax.ifaceAddr

\* AddRoute(prefix, dev): runs the OS route command; an error iff the command fails
AddRoute(table, prefix, cmdOk) ==
    IF cmdOk THEN [err |-> "nil", table |-> table \cup {prefix}]
    ELSE [err |-> "v4 route add failed", table |-> table]

\* DeleteRoute(prefix, dev): runs the OS route command; an error iff the command fails
DeleteRoute(table, prefix, cmdOk) ==
    IF cmdOk THEN [err |-> "nil", table |-> table \ {prefix}]
    ELSE [err |-> "no route deleted", table |-> table]

\* handlePeerRouteOS (outside the sources at hand): installs the peer's route in the OS
\* table through AddRoute; a failure is logged and not returned
handlePeerRouteOS(ax, peer, out) ==
    [ax EXCEPT !.routesOS = AddRoute(@, peer.PublicKey, out.routeOk).table]

\* handlePeerRouteUS (outside the sources at hand): the same on the userspace netstack
handlePeerRouteUS(ax, peer, out) ==
    [ax EXCEPT !.routesUS = IF out.routeOk THEN @ \cup {peer.PublicKey} ELSE @]

\* handlePeerRoute: dispatch on userspaceMode; no result
handlePeerRoute(ax, peer, out) ==
    LET a == Logged(ax, "handlePeerRoute", peer.PublicKey, out.routeOk)
    IN  IF userspaceMode THEN handlePeerRouteUS(a, peer, out)
        ELSE handlePeerRouteOS(a, peer, out)

\* handlePeerRouteDeleteOS / US (outside the sources at hand)
handlePeerRouteDeleteOS(ax, device, out) ==
    [ax EXCEPT !.routesOS = DeleteRoute(@, device.PublicKey, out.deleteOk).table]

handlePeerRouteDeleteUS(ax, device, out) ==
    [ax EXCEPT !.routesUS = IF out.deleteOk THEN @ \ {device.PublicKey} ELSE @]

\* handlePeerRouteDelete: dispatch on userspaceMode; no result
handlePeerRouteDelete(ax, device, out) ==
    LET a == Logged(ax, "handlePeerRouteDelete", device.PublicKey, out.deleteOk)
    IN  IF userspaceMode THEN handlePeerRouteDeleteUS(a, device, out)
        ELSE handlePeerRouteDeleteOS(a, device, out)

\* handlePeerTunnel (outside the sources at hand): sets the WireGuard peer entry of
\* the key to the peer's endpoint; DeployWireguardConfig uses no result of it
handlePeerTunnel(ax, peer, out) ==
    LET a == Logged(ax, "handlePeerTunnel", peer.PublicKey, out.tunnelOk)
    IN  IF out.tunnelOk
        THEN [a EXCEPT !.tunnels = {t \in @ : t.PublicKey # peer.PublicKey} \cup {peer}]
        ELSE a

\* setupInterface (outside the sources at hand): rebuilds the tunnel interface with
\* the assigned address; returns an error when the rebuild fails
setupInterface(ax, out) ==
    LET a == Logged(ax, "setupInterface", NoKey, out.ifaceOk)
    IN  IF out.ifaceOk THEN [ax |-> [a EXCEPT !.ifaceAddr = TunnelIP], err |-> "nil"]
        ELSE [ax |-> a, err |-> "setupInterface"]

\* processSecurityGroupRules (outside the sources at hand): installs the rules of the
\* assigned security group; returns an error when that fails
processSecurityGroupRules(ax, out) ==
    LET a == Logged(ax, "processSecurityGroupRules", NoKey, out.sgOk)
    IN  IF out.sgOk THEN [ax |-> [a EXCEPT !.fwApplied = securityGroupId], err |-> "nil"]
        ELSE [ax |-> a, err |-> "processSecurityGroupRules"]

----------------------------------------------------------------------------
(* DeployWireguardConfig(newPeers, firstTime)                               *)

\* a variant with the comparison inverted
InterfaceStaleInverted(ax) == TunnelIP = getIPv4Iface(ax)

\* if ax.TunnelIP != ax.getIPv4Iface(ax.tunnelIface).String()
InterfaceStale(ax) == TunnelIP # getIPv4Iface(ax)

\* a variant that never finds a security group to apply
SecurityGroupNever == FALSE

\* if ax.securityGroup.Id != "" && runtime.GOOS == Linux.String()
SecurityGroupEnabled == securityGroupId # "" /\ GOOS = Linux

\* a variant that drops the comparison of the two keys
PeerSelectedAnyKey(peer, newPeer) == newPeer.PublicKey # wireguardPubKey

\* if peer.PublicKey == newPeer.PublicKey && newPeer.PublicKey != ax.wireguardPubKey
PeerSelected(peer, newPeer) ==
    peer.PublicKey = newPeer.PublicKey /\ newPeer.PublicKey # wireguardPubKey

\* the body of both loops: ax.handlePeerRoute(peer); ax.handlePeerTunnel(peer)
UpdatePeer(ax, peer, out) == handlePeerTunnel(handlePeerRoute(ax, peer, out), peer, out)

\* if firstTime { for _, peer := range cfg.Peers { ... } }
RECURSIVE FirstTimePeers(_, _, _)
FirstTimePeers(ax, peers, out) ==
    IF peers = <<>> THEN ax
    ELSE FirstTimePeers(UpdatePeer(ax, Head(peers), out), Tail(peers), out)

\* for _, peer := range cfg.Peers { if <selected> { ... } }
RECURSIVE MatchPeers(_, _, _, _)
MatchPeers(ax, peers, newPeer, out) ==
    IF peers = <<>> THEN ax
    ELSE MatchPeers(IF PeerSelected(Head(peers), newPeer)
                    THEN UpdatePeer(ax, Head(peers), out) ELSE ax,
                    Tail(peers), newPeer, out)

\* for _, newPeer := range newPeers { if newPeer.Id != "" { ... } }
RECURSIVE DiffPeers(_, _, _)
DiffPeers(ax, nps, out) ==
    IF nps = <<>> THEN ax
    ELSE DiffPeers(IF Head(nps).Id # "" THEN MatchPeers(ax, ax.Peers, Head(nps), out) ELSE ax,
                   Tail(nps), out)

\* a variant that takes the cache-diff branch on a first pass too
PeerPhaseDiffOnly(ax, nps, first, out) == DiffPeers(ax, nps, out)

\* a variant that takes the firstTime branch on every pass
PeerPhaseAlwaysAll(ax, nps, first, out) == FirstTimePeers(ax, ax.Peers, out)

\* the peer phase: the firstTime branch or the cache-diff branch
PeerPhase(ax, nps, first, out) ==
    IF first THEN FirstTimePeers(ax, ax.Peers, out) ELSE DiffPeers(ax, nps, out)

\* a variant that applies the security group after the peer phase
DeploySecurityGroupLast(ax0, nps, first, out) ==
    LET ax == [ax0 EXCEPT !.calls = <<>>]
        r1 == IF InterfaceStale(ax) THEN setupInterface(ax, out)
              ELSE [ax |-> ax, err |-> "nil"]
        a2 == PeerPhase(r1.ax, nps, first, out)
    IN  IF r1.err # "nil" THEN r1
        ELSE IF SecurityGroupEnabled THEN processSecurityGroupRules(a2, out)
        ELSE [ax |-> a2, err |-> "nil"]

\* a variant that keeps going after a failed security-group step
DeployNoEarlyReturn(ax0, nps, first, out) ==
    LET ax == [ax0 EXCEPT !.calls = <<>>]
        r1 == IF InterfaceStale(ax) THEN setupInterface(ax, out)
              ELSE [ax |-> ax, err |-> "nil"]
        r2 == IF SecurityGroupEnabled THEN processSecurityGroupRules(r1.ax, out)
              ELSE [ax |-> r1.ax, err |-> "nil"]
    IN  IF r1.err # "nil" THEN r1
        ELSE [ax |-> PeerPhase(r2.ax, nps, first, out), err |-> r2.err]

\* the whole pass; the result is the node state it leaves and the error it returns
DeployWireguardConfig(ax0, nps, first, out) ==
    LET ax == [ax0 EXCEPT !.calls = <<>>]
        r1 == IF InterfaceStale(ax) THEN setupInterface(ax, out)
              ELSE [ax |-> ax, err |-> "nil"]
        r2 == IF SecurityGroupEnabled THEN processSecurityGroupRules(r1.ax, out)
              ELSE [ax |-> r1.ax, err |-> "nil"]
    IN  IF r1.err # "nil" THEN r1
        ELSE IF r2.err # "nil" THEN r2
        ELSE [ax |-> PeerPhase(r2.ax, nps, first, out), err |-> "nil"]

----------------------------------------------------------------------------
(* The node state seen by a pass, and its write-back *)

AxState(peers) ==
    [Peers |-> peers, ifaceAddr |-> ifaceAddr, routesOS |-> routesOS,
     routesUS |-> routesUS, tunnels |-> tunnels, fwApplied |-> fwApplied,
     calls |-> <<>>]

WriteBack(ax) ==
    /\ ifaceAddr' = ax.ifaceAddr
    /\ routesOS' = ax.routesOS
    /\ routesUS' = ax.routesUS
    /\ tunnels' = ax.tunnels
    /\ fwApplied' = ax.fwApplied
    /\ calls' = ax.calls

\* cfg.Peers holding one wgPeerConfig per key of S, in listing order
PeersOf(S) ==
    LET ks == KeysInOrder(S) IN [i \in 1..Len(ks) |-> PeerConfig(ks[i], 1)]

DriverIdle ==
    /\ deviceCache = {} /\ converged = FALSE
    /\ lastFetched = {} /\ polls = 0 /\ healthyRepeats = 0 /\ inFlight = {}

ExitIdle ==
    /\ phyIface = "eth0"
    /\ nfTables = {} /\ nfChains = {} /\ nfRules = {} /\ nfLog = <<>> /\ exitErr = "nil"

\* no IsNAT call made
NoResult == [isNAT |-> FALSE, err |-> "-"]
NoProbe  == [nodeOS |-> "-", local |-> "-", dial |-> TRUE, do |-> TRUE, event |-> "-"]
NatIdle == natEnv = NoProbe /\ natResult = NoResult

\* no route function called
NoRouteCall  == [op |-> "-", prefix |-> "-", installed |-> FALSE, outcome |-> "-", err |-> "-"]
NoRouteQuery == [prefix |-> "-", installed |-> FALSE, exists |-> FALSE, err |-> "-"]
RouteIdle == routeCall = NoRouteCall /\ routeQuery = NoRouteQuery

\* the goroutines that may call updateExitNodeOrigins, and a frame outside any call
Goroutines == {"g1", "g2"}
NoFrame == [pc |-> "idle", newPeer |-> PeerConfig(NoKey, 1), found |-> 0, read |-> <<>>]
OriginIdle ==
    /\ exitNodeOrigins = <<>> /\ exitNodeExists = FALSE
    /\ originLast = {} /\ originUpdated = {}
    /\ originProcs = [g \in Goroutines |-> NoFrame]

NoIfaceRun == [os |-> "-", log |-> <<>>, err |-> "-"]
IfaceIdle == ifaceRun = NoIfaceRun

SgIdle ==
    /\ sgRules = {} /\ sgInstalled = {} /\ sgPrevInstalled = {}
    /\ sgErr = "nil" /\ sgPc = "idle"

uuidNil == <<"nil", 0>>
NoUser == [ID |-> "", UserName |-> "", Deleted |-> FALSE]
NoOrg == [ID |-> uuidNil, OwnerID |-> "", Name |-> "", SecurityGroupIds |-> uuidNil]
NoSg == [ID |-> uuidNil, OrganizationId |-> uuidNil, Default |-> FALSE]
EmptyDb == [users |-> <<>>, orgs |-> <<>>, sgs |-> <<>>, ns |-> {}, prefixes |-> {}]
NoUserCall ==
    [op |-> "-", userName |-> "", was |-> NoUser, orgId |-> uuidNil, err |-> "nil",
     status |-> "-", afterDelete |-> FALSE]
NoUserFrame ==
    [pc |-> "idle", id |-> "", userName |-> "", user |-> NoUser, sg |-> NoSg,
     org |-> NoOrg, orgId |-> uuidNil, err |-> "nil"]
UserIdle ==
    /\ db = EmptyDb /\ userLast = NoUserCall /\ userCalls = 0
    /\ userProcs = [g \in Goroutines |-> NoUserFrame]

\* no policy query made
NoToken == [verified |-> FALSE, from_google |-> FALSE, email |-> "", scope |-> {}]
NoQuery == [path1 |-> "", method |-> "", token |-> NoToken]
NoDecision == [ran |-> FALSE, allow |-> FALSE]
PolIdle == polInput = NoQuery /\ polResult = NoDecision

\* a browser that has not talked to the OIDC agent
NoSession == [token |-> "none", id_token |-> "none"]
NoCookies == [state |-> "none", nonce |-> "none"]
NoCallback == [state |-> "", code |-> "", error |-> "", refresh |-> ""]
NoOidcOutcome == [fail |-> "none", idNonce |-> ""]
NoRequest ==
    [op |-> "-", status |-> "-", loggedIn |-> FALSE, before |-> NoSession,
     sent |-> NoCookies, in |-> NoCallback, out |-> NoOidcOutcome]
OidcIdle ==
    /\ session = NoSession /\ cookies = NoCookies
    /\ oidcLast = NoRequest /\ oidcCalls = 0

ExtraIdle == PolIdle /\ OidcIdle

AuxIdle == NatIdle /\ RouteIdle /\ OriginIdle /\ IfaceIdle /\ SgIdle /\ UserIdle /\ ExtraIdle

\* the agent at rest, for the specifications that do not run a pass
PassIdle ==
    /\ wgPeers = <<>>
    /\ TunnelIP = "100.100.0.1"
    /\ ifaceAddr = TunnelIP
    /\ securityGroupId = ""
    /\ GOOS = Linux
    /\ userspaceMode = FALSE
    /\ routesOS = {} /\ routesUS = {} /\ tunnels = {} /\ fwApplied = ""
    /\ newPeers = <<>> /\ firstTime = TRUE
    /\ calls = <<>> /\ err = "nil"

----------------------------------------------------------------------------
(* SpecDeploy: one call of DeployWireguardConfig on any agent state and     *)
(* any arguments                                                            *)

\* the devices a newPeers argument is drawn from: every key with an Id, and an entry
\* without an Id
ArgDevices == {Device("id", k, 1) : k \in Keys} \cup {Device("", "A", 1)}

InitDeploy ==
    /\ wgPeers \in {PeersOf(S) : S \in SUBSET Keys}
    /\ TunnelIP = "100.100.0.1"
    /\ ifaceAddr \in Addrs \cup {NoAddr}
    /\ securityGroupId \in {"", "sg-1"}
    /\ GOOS \in {Linux, Darwin}
    /\ userspaceMode \in BOOLEAN
    /\ routesOS = {} /\ routesUS = {} /\ tunnels = {} /\ fwApplied = ""
    /\ pc = "call"
    /\ newPeers \in SeqsUpTo(ArgDevices, MaxNewPeers)
    /\ firstTime \in BOOLEAN
    /\ calls = <<>> /\ err = "nil"
    /\ DriverIdle /\ ExitIdle /\ AuxIdle

\* the command outcomes that can matter to a pass on node state ax: a command that
\* is not run has no outcome to choose
PassOutcomes(ax, withUpdate, withDelete) ==
    {o \in Outcomes :
        /\ (~InterfaceStale(ax) => o.ifaceOk)
        /\ (~SecurityGroupEnabled => o.sgOk)
        /\ (~withUpdate => o.routeOk /\ o.tunnelOk)
        /\ (~withDelete => o.deleteOk)}

DeployCall ==
    /\ pc = "call"
    /\ \E out \in PassOutcomes(AxState(wgPeers), wgPeers # <<>>, FALSE) :
          LET r == DeployWireguardConfig(AxState(wgPeers), newPeers, firstTime, out)
          IN  /\ WriteBack(r.ax)
              /\ err' = r.err
    /\ pc' = "return"
    /\ UNCHANGED <<wgPeers, TunnelIP, securityGroupId, GOOS, userspaceMode>>
    /\ UNCHANGED <<newPeers, firstTime>>
    /\ UNCHANGED <<driverVars, exitVars, auxVars>>

NextDeploy == DeployCall

SpecDeploy == InitDeploy /\ [][NextDeploy]_vars

----------------------------------------------------------------------------
(* Properties of one pass (SpecDeploy) *)

CfgKeys == {wgPeers[i].PublicKey : i \in 1..Len(wgPeers)}
Returned == pc = "return"
Called(op) == Positions(calls, op) # {}

\* C1 (self-exclusion): no pass, first or later, makes a route update or a tunnel update
\* for a peer whose public key is the local node's own key.
C1_SelfExclusion ==
    Returned => \A i \in PeerPositions(calls) : calls[i].key # wireguardPubKey

Updated(k) ==
    PositionsOf(calls, "handlePeerRoute", k) # {} /\ PositionsOf(calls, "handlePeerTunnel", k) # {}

\* C7 (runs to completion or returns the first error): every call returns; it returns nil
\* after running every step, or the error of the first failing step, and then no step
\* after the failing one has run and what the earlier steps changed is still in place.
C7_CompletesOrFirstError ==
    /\ pc = "call" => ENABLED DeployCall
    /\ Returned =>
        /\ err \in {"nil", "setupInterface", "processSecurityGroupRules"}
        /\ err # "nil" =>
            /\ calls # <<>>
            /\ calls[Len(calls)].op = err /\ ~calls[Len(calls)].ok
            /\ \A i \in 1..(Len(calls) - 1) : calls[i].ok
            /\ PeerPositions(calls) = {}
            /\ routesOS = {} /\ routesUS = {} /\ tunnels = {}
            /\ err = "setupInterface" => ~Called("processSecurityGroupRules")
            /\ (err = "processSecurityGroupRules" /\ Called("setupInterface"))
                   => ifaceAddr = TunnelIP
        /\ err = "nil" =>
            /\ ifaceAddr = TunnelIP
            /\ (securityGroupId # "" /\ GOOS = Linux)
                   => (Called("processSecurityGroupRules") /\ fwApplied = securityGroupId)
            /\ firstTime => \A k \in CfgKeys : Updated(k)
            /\ ~firstTime =>
                   \A i \in 1..Len(newPeers) :
                       (/\ newPeers[i].Id # ""
                        /\ newPeers[i].PublicKey \in CfgKeys
                        /\ newPeers[i].PublicKey # wireguardPubKey)
                           => Updated(newPeers[i].PublicKey)

\* the interface was rebuilt, then the security-group step failed
C7_Witness ==
    /\ Returned /\ err = "processSecurityGroupRules"
    /\ Called("setupInterface") /\ ifaceAddr = TunnelIP
    /\ wgPeers # <<>> /\ newPeers # <<>>

\* C8 as stated: with a non-empty security group id on Linux, processSecurityGroupRules is
\* invoked in every pass, after all peer route and tunnel updates of that pass.
C8_SecurityGroupAfterPeers ==
    (Returned /\ securityGroupId # "" /\ GOOS = Linux) =>
        /\ Called("processSecurityGroupRules")
        /\ \A i \in Positions(calls, "processSecurityGroupRules"),
              j \in PeerPositions(calls) : j < i

\* C8 amended: with a non-empty security group id on Linux, processSecurityGroupRules is
\* invoked exactly once in every pass whose interface step did not fail, after the
\* interface rebuild and before every peer route and tunnel update of that pass, and no
\* peer is touched when it fails; without a group id or off Linux it is not invoked.
C8_SecurityGroupBeforePeers ==
    Returned =>
        /\ (securityGroupId # "" /\ GOOS = Linux /\ err # "setupInterface")
               => Cardinality(Positions(calls, "processSecurityGroupRules")) = 1
        /\ ~(securityGroupId # "" /\ GOOS = Linux) => ~Called("processSecurityGroupRules")
        /\ \A i \in Positions(calls, "processSecurityGroupRules") :
              /\ \A j \in PeerPositions(calls) : i < j
              /\ \A j \in Positions(calls, "setupInterface") : j < i
              /\ ~calls[i].ok => (err = "processSecurityGroupRules" /\ PeerPositions(calls) = {})

\* only peers changed (the interface was current), the group was applied, peers followed
C8_Witness ==
    /\ Returned /\ err = "nil" /\ ~firstTime
    /\ ~Called("setupInterface")
    /\ Called("processSecurityGroupRules")
    /\ PeerPositions(calls) # {}

\* C9 (interface rebuild precedes peers): a pass invokes setupInterface if and only if the
\* configured tunnel address differs from the live address of the tunnel interface; it
\* does so before any other step; and if setupInterface fails the pass returns that error
\* and has touched no peer.
C9_InterfaceRebuildFirst ==
    [][(pc = "call" /\ pc' = "return") =>
          /\ (Positions(calls', "setupInterface") # {}) <=> (TunnelIP # ifaceAddr)
          /\ Positions(calls', "setupInterface") \subseteq {1}
          /\ \A i \in Positions(calls', "setupInterface") :
                IF calls'[i].ok
                THEN ifaceAddr' = TunnelIP
                ELSE /\ err' = "setupInterface"
                     /\ PeerPositions(calls') = {}
                     /\ UNCHANGED <<routesOS, routesUS, tunnels, ifaceAddr>>
      ]_vars

\* a stale interface was rebuilt and peers were updated after it
C9_Witness ==
    /\ Returned /\ err = "nil"
    /\ Called("setupInterface")
    /\ PeerPositions(calls) # {}
    /\ \A j \in PeerPositions(calls) : j > 1

----------------------------------------------------------------------------
(* The polling driver.  Its code is outside the sources at hand; it is      *)
(* modelled from the specification: on every polling cycle it diffs the     *)
(* newly fetched peer list against the previously applied peer set, hands   *)
(* the new or changed entries to DeployWireguardConfig (all peers on first  *)
(* convergence) and tears down the peers that are cached but absent from    *)
(* the new list.                                                            *)

\* the peer listings the control plane may return: the local device, and each other
\* device absent or present at one of its endpoints
MovingKeys == {"A"}         \* the devices whose endpoint changes between polls
EndpointsOf(k) == IF k \in MovingKeys THEN Endpoints ELSE {1}
Listings ==
    {l \in SUBSET {d \in {Device("id", k, e) : k \in Keys, e \in Endpoints} :
                      d.Endpoint \in EndpointsOf(d.PublicKey)} :
        /\ Device("id", wireguardPubKey, 1) \in l
        /\ \A d1, d2 \in l : d1.PublicKey = d2.PublicKey => d1 = d2}

KeysOf(devs) == {d.PublicKey : d \in devs}
DeviceOf(devs, k) == CHOOSE d \in devs : d.PublicKey = k
InListingOrder(devs) ==
    LET ks == KeysInOrder(KeysOf(devs)) IN [i \in 1..Len(ks) |-> DeviceOf(devs, ks[i])]

\* the entries of the fetched list that are new, or differ from the cached entry
ChangedPeers(cache, fetched) == InListingOrder(fetched \ cache)

\* the cached entries whose key is absent from the fetched list
RemovedPeers(cache, fetched) ==
    InListingOrder({d \in cache : d.PublicKey \notin KeysOf(fetched)})

\* buildPeersConfig: one wgPeerConfig per listed device
buildPeersConfig(devs) ==
    LET ds == InListingOrder(devs)
    IN  [i \in 1..Len(ds) |-> PeerConfig(ds[i].PublicKey, ds[i].Endpoint)]

\* removal of the WireGuard peer entry of a device
deletePeer(ax, device, out) ==
    LET a == Logged(ax, "deletePeer", device.PublicKey, out.deleteOk)
    IN  IF out.deleteOk
        THEN [a EXCEPT !.tunnels = {t \in @ : t.PublicKey # device.PublicKey}]
        ELSE a

\* teardown of the removed peers: route, then tunnel entry
RECURSIVE handlePeerDelete(_, _, _)
handlePeerDelete(ax, removed, out) ==
    IF removed = <<>> THEN ax
    ELSE handlePeerDelete(deletePeer(handlePeerRouteDelete(ax, Head(removed), out),
                                     Head(removed), out),
                          Tail(removed), out)

\* one polling cycle: the result is the node state, the returned error, the cache and
\* whether a first pass has completed
Reconcile(ax0, cache, fetched, first, out) ==
    LET ax == [ax0 EXCEPT !.Peers = buildPeersConfig(fetched)]
        r  == DeployWireguardConfig(ax, ChangedPeers(cache, fetched), first, out)
    IN  IF r.err # "nil"
        THEN [ax |-> r.ax, err |-> r.err, cache |-> cache, converged |-> ~first]
        ELSE [ax |-> handlePeerDelete(r.ax, RemovedPeers(cache, fetched), out),
              err |-> "nil", cache |-> fetched, converged |-> TRUE]

AllOk(log) == \A i \in 1..Len(log) : log[i].ok

InitReconcile ==
    /\ wgPeers = <<>>
    /\ TunnelIP = "100.100.0.1"
    /\ ifaceAddr = NoAddr
    /\ securityGroupId = ""
    /\ GOOS = Linux
    /\ userspaceMode = FALSE
    /\ routesOS = {} /\ routesUS = {} /\ tunnels = {} /\ fwApplied = ""
    /\ pc = "idle"
    /\ newPeers = <<>> /\ firstTime = TRUE
    /\ calls = <<>> /\ err = "nil"
    /\ DriverIdle /\ ExitIdle /\ AuxIdle

Poll ==
    /\ pc = "idle"
    /\ polls < MaxPolls
    /\ polls' = polls + 1
    /\ \E fetched \in Listings :
         \E out \in PassOutcomes(AxState(<<>>),
                                 IF converged THEN fetched \ deviceCache # {} ELSE TRUE,
                                 RemovedPeers(deviceCache, fetched) # <<>>) :
          \E r \in {Reconcile(AxState(<<>>), deviceCache, fetched, ~converged, out)} :
              /\ WriteBack(r.ax)
              /\ err' = r.err
              /\ wgPeers' = r.ax.Peers
              /\ newPeers' = ChangedPeers(deviceCache, fetched)
              /\ firstTime' = ~converged
              /\ deviceCache' = r.cache
              /\ converged' = r.converged
              /\ lastFetched' = fetched
              /\ UNCHANGED inFlight
              /\ healthyRepeats' =
                    IF r.err = "nil" /\ AllOk(r.ax.calls) /\ fetched = lastFetched
                    THEN healthyRepeats + 1 ELSE 0
    /\ UNCHANGED <<TunnelIP, securityGroupId, GOOS, userspaceMode, pc>>
    /\ UNCHANGED <<exitVars, auxVars>>

NextReconcile == Poll

SpecReconcile == InitReconcile /\ [][NextReconcile]_vars

----------------------------------------------------------------------------
(* Properties of the polling cycles (SpecReconcile) *)

PollStep == polls' = polls + 1
CallCount(log, op, k) == Cardinality(PositionsOf(log, op, k))
InstalledRoutes == IF userspaceMode THEN routesUS ELSE routesOS

\* C2 (diff correctness): a polling cycle that completes tears down exactly the peers that
\* are cached but absent from the fetched list (one route removal and one tunnel removal
\* each), makes one route update and one tunnel update for exactly the other devices
\* that are new or changed, and none for the devices present and unchanged in both.
C2_DiffCorrectness ==
    [][(PollStep /\ err' = "nil") =>
          LET removed == KeysOf(deviceCache) \ KeysOf(lastFetched')
              changed == KeysOf(lastFetched' \ deviceCache)
          IN  \A k \in Keys :
                /\ CallCount(calls', "handlePeerRouteDelete", k) = (IF k \in removed THEN 1 ELSE 0)
                /\ CallCount(calls', "deletePeer", k) = (IF k \in removed THEN 1 ELSE 0)
                /\ k \in PeerKeys =>
                     /\ CallCount(calls', "handlePeerRoute", k) = (IF k \in changed THEN 1 ELSE 0)
                     /\ CallCount(calls', "handlePeerTunnel", k) = (IF k \in changed THEN 1 ELSE 0)
      ]_vars

\* a later cycle tore one peer down, installed another and left a third alone
C2_Witness ==
    /\ polls > 1 /\ ~firstTime /\ err = "nil"
    /\ Positions(calls, "handlePeerRouteDelete") # {}
    /\ PeerPositions(calls) # {}
    /\ \E k \in KeysOf(lastFetched) \cap PeerKeys :
          \A i \in 1..Len(calls) : calls[i].key # k

\* C3 (idempotence): when a polling cycle fetches the same peer list as the cycle before
\* it, and that cycle completed, the second application makes no handlePeerRoute and no
\* handlePeerTunnel call.
C3_Idempotence ==
    [][(PollStep /\ polls > 0 /\ err = "nil" /\ lastFetched' = lastFetched)
          => PeerPositions(calls') = {}
      ]_vars

\* the same list of three devices or more was applied twice in a row
C3_Witness ==
    /\ polls > 1 /\ ~firstTime /\ healthyRepeats > 0
    /\ Cardinality(lastFetched) > 2
    /\ tunnels # {}
    /\ PeerPositions(calls) = {}

\* C4 (no orphaned or duplicate routes): a public key has at most one peer configuration
\* and at most one tunnel entry, and after a cycle that completed without a failing command
\* no route and no tunnel entry remains for a key that is absent from the fetched list.
C4_NoOrphanedRoutes ==
    /\ \A i, j \in 1..Len(wgPeers) : wgPeers[i].PublicKey = wgPeers[j].PublicKey => i = j
    /\ \A t1, t2 \in tunnels : t1.PublicKey = t2.PublicKey => t1 = t2
    /\ (polls > 0 /\ err = "nil" /\ AllOk(calls)) =>
          \A k \in Keys \ KeysOf(lastFetched) :
              /\ k \notin routesOS \cup routesUS
              /\ \A t \in tunnels : t.PublicKey # k

\* C6 (retry and eventual convergence): once the fetched list has stayed unchanged over
\* the following cycles and every command of those cycles succeeded, every other device
\* of the list has its route and its tunnel entry installed.
C6_EventualConvergence ==
    (healthyRepeats = MaxPolls - 1) =>
        \A d \in lastFetched :
            d.PublicKey # wireguardPubKey =>
                /\ d.PublicKey \in InstalledRoutes
                /\ PeerConfig(d.PublicKey, d.Endpoint) \in tunnels

----------------------------------------------------------------------------
(* SpecSerial: the polling loop with the start and the return of a pass as  *)
(* separate steps.  The loop is one thread of control that calls the pass   *)
(* and waits for it to return before it sleeps and polls again.             *)

Pass(n, fetched) == [poll |-> n, fetched |-> fetched]

\* a loop that starts a pass at every tick of its timer, returned or not
DriverReadyEveryTick == TRUE

\* the loop is at its call site only when the pass it called has returned
DriverReady == inFlight = {}

InitSerial == InitReconcile

PassBegin ==
    /\ pc = "idle"
    /\ DriverReady
    /\ polls < MaxPolls
    /\ polls' = polls + 1
    /\ \E fetched \in Listings : inFlight' = inFlight \cup {Pass(polls + 1, fetched)}
    /\ UNCHANGED <<agentVars, nodeVars, passVars>>
    /\ UNCHANGED <<deviceCache, converged, lastFetched, healthyRepeats>>
    /\ UNCHANGED <<exitVars, auxVars>>

PassEnd ==
    /\ pc = "idle"
    /\ \E p \in inFlight :
         \E out \in PassOutcomes(AxState(<<>>),
                                 IF converged THEN p.fetched \ deviceCache # {} ELSE TRUE,
                                 RemovedPeers(deviceCache, p.fetched) # <<>>) :
          \E r \in {Reconcile(AxState(<<>>), deviceCache, p.fetched, ~converged, out)} :
              /\ WriteBack(r.ax)
              /\ err' = r.err
              /\ wgPeers' = r.ax.Peers
              /\ newPeers' = ChangedPeers(deviceCache, p.fetched)
              /\ firstTime' = ~converged
              /\ deviceCache' = r.cache
              /\ converged' = r.converged
              /\ lastFetched' = p.fetched
              /\ inFlight' = inFlight \ {p}
              /\ healthyRepeats' =
                    IF r.err = "nil" /\ AllOk(r.ax.calls) /\ p.fetched = lastFetched
                    THEN healthyRepeats + 1 ELSE 0
    /\ UNCHANGED <<TunnelIP, securityGroupId, GOOS, userspaceMode, pc, polls>>
    /\ UNCHANGED <<exitVars, auxVars>>

NextSerial == PassBegin \/ PassEnd

SpecSerial == InitSerial /\ [][NextSerial]_vars

----------------------------------------------------------------------------
(* Exit-node NAT setup: the six steps, each one firewall command, and the   *)
(* sequence that runs them.  The firewall state one setup works on:         *)
(*   [tables, chains, rules, log]                                           *)

nfExitNodeTable == "nexodus-exit-node"
wgIface         == "wg0"
PhyIfaces       == {"eth0", "eth1"}

\* one firewall command: nft add <object> inet <table> [<chain>] <arg>
Cmd(object, chain, arg) == [object |-> object, chain |-> chain, arg |-> arg]
TableCmd            == Cmd("table", "", "")
PreroutingChainCmd  == Cmd("chain", "prerouting", "nat")
PostroutingChainCmd == Cmd("chain", "postrouting", "nat")
ForwardChainCmd     == Cmd("chain", "forward", "filter")
PostroutingRuleCmd(phy) == Cmd("rule", "postrouting", phy)
ForwardRuleCmd      == Cmd("rule", "forward", wgIface)
ChainNames          == {"prerouting", "postrouting", "forward"}

\* outcomes of the firewall commands of one setup, apart from what the firewall state
\* itself decides
ExitOutcomes == [table : BOOLEAN, prerouting : BOOLEAN, postrouting : BOOLEAN,
                 forward : BOOLEAN, postroutingRule : BOOLEAN, forwardRule : BOOLEAN]

\* policyCmd (outside the sources at hand): runs nft with the arguments; a chain needs its
\* table and a rule needs its chain, otherwise the command fails
policyCmd(nf, cmd, cmdOk) ==
    LET ok == /\ cmdOk
              /\ cmd.object = "chain" => nfExitNodeTable \in nf.tables
              /\ cmd.object = "rule" => cmd.chain \in nf.chains
        logged == [nf EXCEPT !.log = Append(@, [cmd |-> cmd, ok |-> ok])]
    IN  IF ~ok THEN [nf |-> logged, err |-> "exit status 1"]
        ELSE [nf |-> IF cmd.object = "table"
                       THEN [logged EXCEPT !.tables = @ \cup {nfExitNodeTable}]
                     ELSE IF cmd.object = "chain"
                       THEN [logged EXCEPT !.chains = @ \cup {cmd.chain}]
                     ELSE [logged EXCEPT !.rules = @ \cup {[chain |-> cmd.chain, arg |-> cmd.arg]}],
              err |-> "nil"]

\* a variant that returns nil whatever the command returned
StepNoError(r, msg) == [nf |-> r.nf, err |-> "nil"]

\* the shape shared by the six steps: if _, err := policyCmd(...); err != nil { return
\* fmt.Errorf(...) }; return nil
Step(r, msg) == IF r.err # "nil" THEN [nf |-> r.nf, err |-> msg] ELSE [nf |-> r.nf, err |-> "nil"]

\* a variant that drops the error of the command
addExitDestinationTableNoError(nf, out) ==
    [nf |-> policyCmd(nf, TableCmd, out.table).nf, err |-> "nil"]

addExitDestinationTable(nf, out) ==
    Step(policyCmd(nf, TableCmd, out.table), "failed to add nftables table")

addExitOriginPreroutingChain(nf, out) ==
    Step(policyCmd(nf, PreroutingChainCmd, out.prerouting), "failed to add nftables chain")

addExitOriginPostroutingChain(nf, out) ==
    Step(policyCmd(nf, PostroutingChainCmd, out.postrouting), "failed to add nftables chain")

addExitOriginForwardChain(nf, out) ==
    Step(policyCmd(nf, ForwardChainCmd, out.forward), "failed to add nftables chain")

addExitOriginPostroutingRule(nf, phy, out) ==
    Step(policyCmd(nf, PostroutingRuleCmd(phy), out.postroutingRule), "failed to add nftables rule")

addExitOriginForwardRule(nf, out) ==
    Step(policyCmd(nf, ForwardRuleCmd, out.forwardRule), "failed to add nftables rule")

\* the setup sequence (outside the sources at hand): table, then chains, then rules, each
\* step failing fast if a prior step failed; skipped where the platform lacks the firewall
exitNodeOriginSetup(nf0, phy, out) ==
    LET nf == [nf0 EXCEPT !.log = <<>>]
        r1 == addExitDestinationTable(nf, out)
        r2 == addExitOriginPreroutingChain(r1.nf, out)
        r3 == addExitOriginPostroutingChain(r2.nf, out)
        r4 == addExitOriginForwardChain(r3.nf, out)
        r5 == addExitOriginPostroutingRule(r4.nf, phy, out)
        r6 == addExitOriginForwardRule(r5.nf, out)
    IN  IF GOOS # Linux THEN [nf |-> nf, err |-> "nil"]
        ELSE IF r1.err # "nil" THEN r1
        ELSE IF r2.err # "nil" THEN r2
        ELSE IF r3.err # "nil" THEN r3
        ELSE IF r4.err # "nil" THEN r4
        ELSE IF r5.err # "nil" THEN r5
        ELSE r6

NfState == [tables |-> nfTables, chains |-> nfChains, rules |-> nfRules, log |-> <<>>]

\* the rules a firewall state may hold: those the setup adds, each in its chain
ExitRules == {[chain |-> "postrouting", arg |-> p] : p \in PhyIfaces}
                 \cup {[chain |-> "forward", arg |-> wgIface]}

\* SpecExit: one exit-node setup on any firewall state an earlier setup, complete or
\* failed part-way, may have left
InitExit ==
    /\ wgPeers = <<>>
    /\ TunnelIP = "100.100.0.1"
    /\ ifaceAddr = TunnelIP
    /\ securityGroupId = ""
    /\ GOOS \in {Linux, Darwin}
    /\ userspaceMode = FALSE
    /\ routesOS = {} /\ routesUS = {} /\ tunnels = {} /\ fwApplied = ""
    /\ pc = "call"
    /\ newPeers = <<>> /\ firstTime = TRUE
    /\ calls = <<>> /\ err = "nil"
    /\ DriverIdle /\ AuxIdle
    /\ phyIface \in PhyIfaces
    /\ nfTables \in SUBSET {nfExitNodeTable}
    /\ nfChains \in SUBSET ChainNames
    /\ nfRules \in SUBSET ExitRules
    /\ nfChains # {} => nfExitNodeTable \in nfTables
    /\ \A r \in nfRules : r.chain \in nfChains
    /\ GOOS # Linux => nfTables = {}
    /\ nfLog = <<>> /\ exitErr = "nil"

ExitNodeSetup ==
    /\ pc = "call"
    /\ \E out \in ExitOutcomes :
         \E r \in {exitNodeOriginSetup(NfState, phyIface, out)} :
            /\ nfTables' = r.nf.tables
            /\ nfChains' = r.nf.chains
            /\ nfRules' = r.nf.rules
            /\ nfLog' = r.nf.log
            /\ exitErr' = r.err
    /\ pc' = "return"
    /\ UNCHANGED <<agentVars, nodeVars, driverVars, auxVars, phyIface>>
    /\ UNCHANGED <<newPeers, firstTime, calls, err>>

NextExit == ExitNodeSetup

SpecExit == InitExit /\ [][NextExit]_vars

\* the order of the firewall commands of a complete setup
ExitOrder(phy) == <<TableCmd, PreroutingChainCmd, PostroutingChainCmd, ForwardChainCmd,
                    PostroutingRuleCmd(phy), ForwardRuleCmd>>

\* C10 (NAT setup ordering): the commands of an exit-node setup are issued in the order
\* table, prerouting chain, postrouting chain, forward chain, postrouting rule, forward
\* rule; a chain command is issued only after the table command of this setup succeeded
\* and a rule command only after the command of its owning chain succeeded; so no chain
\* exists without the table and no rule without its chain.
C10_NatSetupOrdering ==
    /\ nfChains # {} => nfExitNodeTable \in nfTables
    /\ \A r \in nfRules : r.chain \in nfChains
    /\ Returned =>
        /\ Len(nfLog) <= Len(ExitOrder(phyIface))
        /\ \A i \in 1..Len(nfLog) :
            /\ nfLog[i].cmd = ExitOrder(phyIface)[i]
            /\ nfLog[i].cmd.object = "chain" =>
                  \E j \in 1..(i - 1) : nfLog[j].cmd = TableCmd /\ nfLog[j].ok
            /\ nfLog[i].cmd.object = "rule" =>
                  \E j \in 1..(i - 1) :
                      /\ nfLog[j].cmd.object = "chain"
                      /\ nfLog[j].cmd.chain = nfLog[i].cmd.chain
                      /\ nfLog[j].ok

\* a complete setup: six commands, both rules in place
C10_Witness ==
    /\ Returned /\ exitErr = "nil"
    /\ Len(nfLog) = Len(ExitOrder(phyIface))
    /\ nfChains = ChainNames
    /\ [chain |-> "postrouting", arg |-> phyIface] \in nfRules
    /\ [chain |-> "forward", arg |-> wgIface] \in nfRules

\* the error a step returns when its command fails
StepError(cmd) ==
    IF cmd.object = "table" THEN "failed to add nftables table"
    ELSE IF cmd.object = "chain" THEN "failed to add nftables chain"
    ELSE "failed to add nftables rule"

\* C11 (NAT setup fails fast): every step of an exit-node setup issues one firewall
\* command; the setup returns nil exactly when all six commands were issued and succeeded;
\* when a command fails it is the last one issued, every command before it succeeded, no
\* later step is attempted and the error of the failing step is returned.
C11_NatSetupFailsFast ==
    (Returned /\ GOOS = Linux) =>
        /\ Len(nfLog) \in 1..Len(ExitOrder(phyIface))
        /\ \A i \in 1..Len(nfLog) : nfLog[i].cmd = ExitOrder(phyIface)[i]
        /\ \A i \in 1..(Len(nfLog) - 1) : nfLog[i].ok
        /\ (exitErr = "nil") <=> (\A i \in 1..Len(nfLog) : nfLog[i].ok)
        /\ exitErr = "nil" => Len(nfLog) = Len(ExitOrder(phyIface))
        /\ exitErr # "nil" => exitErr = StepError(nfLog[Len(nfLog)].cmd)

\* the forward chain command failed: four commands issued, the rules never attempted
C11_Witness ==
    /\ Returned /\ GOOS = Linux
    /\ exitErr = "failed to add nftables chain"
    /\ Len(nfLog) = Len(ExitOrder(phyIface)) - 2
    /\ ~nfLog[Len(nfLog)].ok

----------------------------------------------------------------------------
(* NAT detection: IsNAT compares the locally discovered address with the     *)
(* address a STUN server sees.  natEnv holds what the network answers:       *)
(*   nodeOS  the operating system name passed to IsNAT                       *)
(*   local   the address local discovery finds, or "fail"                    *)
(*   dial    whether stun.Dial succeeds                                      *)
(*   do      whether c.Do returns nil                                        *)
(*   event   what the STUN callback receives: an event carrying an error (a  *)
(*           timeout among them), a message without a decodable mapped       *)
(*           address, or the mapped address                                  *)

Windows     == "windows"
Unsupported == "unsupported"
NodeOSes    == {Linux, Darwin, Windows, Unsupported}
HostAddrs   == {"192.168.1.10", "203.0.113.7"}
ProbeEnvs   == [nodeOS : NodeOSes, local : HostAddrs \cup {"fail"}, dial : BOOLEAN,
                do : BOOLEAN, event : HostAddrs \cup {"error", "undecodable"}]

\* discoverGenericIPv4: the source address of a dial to the controller
discoverGenericIPv4(env) ==
    IF env.local = "fail" THEN [ip |-> "", err |-> "dial udp"]
    ELSE [ip |-> env.local, err |-> "nil"]

\* discoverLinuxAddress (the Linux build is outside the sources at hand): the address of
\* the interface holding the default route, or an error
discoverLinuxAddress(env) ==
    IF env.local = "fail" THEN [ip |-> "", err |-> "no default route"]
    ELSE [ip |-> env.local, err |-> "nil"]

\* GetPubIPv4: the mapped address of a STUN binding request
GetPubIPv4(env) ==
    IF ~env.dial THEN [ip |-> "", err |-> "stun dial"]
    ELSE IF ~env.do THEN [ip |-> "", err |-> "stun do"]
    ELSE IF env.event \in {"error", "undecodable"} THEN [ip |-> "", err |-> "nil"]
    ELSE [ip |-> env.event, err |-> "nil"]

\* the address discovery IsNAT runs for its nodeOS argument
HostIP(env) ==
    IF env.nodeOS \in {Darwin, Windows} THEN discoverGenericIPv4(env)
    ELSE IF env.nodeOS = Linux THEN discoverLinuxAddress(env)
    ELSE [ip |-> "", err |-> "nil"]

\* a variant without the Windows branch
IsNATWithoutWindows(env) ==
    LET host == IF env.nodeOS = Windows THEN [ip |-> "", err |-> "nil"] ELSE HostIP(env)
        pub  == GetPubIPv4(env)
    IN  IF host.err # "nil" THEN [isNAT |-> FALSE, err |-> host.err]
        ELSE IF pub.err # "nil" THEN [isNAT |-> FALSE, err |-> pub.err]
        ELSE [isNAT |-> host.ip # pub.ip, err |-> "nil"]

IsNAT(env) ==
    LET host == HostIP(env)
        pub  == GetPubIPv4(env)
    IN  IF host.err # "nil" THEN [isNAT |-> FALSE, err |-> host.err]
        ELSE IF pub.err # "nil" THEN [isNAT |-> FALSE, err |-> pub.err]
        ELSE [isNAT |-> host.ip # pub.ip, err |-> "nil"]

\* SpecNAT: one call of IsNAT under any answer of the network
InitNAT ==
    /\ PassIdle /\ DriverIdle /\ ExitIdle /\ RouteIdle /\ OriginIdle /\ IfaceIdle /\ SgIdle /\ UserIdle /\ ExtraIdle
    /\ pc = "call"
    /\ natEnv \in ProbeEnvs
    /\ natResult = NoResult

IsNATCall ==
    /\ pc = "call"
    /\ natResult' = IsNAT(natEnv)
    /\ pc' = "return"
    /\ UNCHANGED <<agentVars, nodeVars, driverVars, exitVars, natEnv, routeVars, originVars, ifaceVars, sgVars, userVars, extraVars>>
    /\ UNCHANGED <<newPeers, firstTime, calls, err>>

NextNAT == IsNATCall

SpecNAT == InitNAT /\ [][NextNAT]_vars

LocalFound(env)  == env.local # "fail"
ProbeFailed(env) == ~env.dial \/ ~env.do \/ env.event = "error"
ProbeAnswered(env) == env.dial /\ env.do /\ env.event \in HostAddrs

\* C12 (probe failure assumes NAT): when the STUN probe fails or times out, IsNAT returns
\* isNATed = true and no error.
C12_ProbeFailureAssumesNAT ==
    (Returned /\ natEnv.nodeOS # Unsupported /\ LocalFound(natEnv) /\ ProbeFailed(natEnv))
        => natResult = [isNAT |-> TRUE, err |-> "nil"]

\* C13 (NAT classification): on linux, darwin and windows, when local discovery and the
\* STUN probe both succeed, IsNAT returns no error, and returns true exactly when the
\* local address differs from the address the STUN server saw.
C13_NatClassification ==
    (Returned /\ natEnv.nodeOS \in {Linux, Darwin, Windows}
              /\ LocalFound(natEnv) /\ ProbeAnswered(natEnv))
        => /\ natResult.err = "nil"
           /\ natResult.isNAT <=> (natEnv.local # natEnv.event)

\* on windows both addresses were found equal and the node is classified as not NATed
C13_Witness ==
    /\ Returned /\ natEnv.nodeOS = Windows
    /\ ProbeAnswered(natEnv) /\ natEnv.local = natEnv.event
    /\ natResult = [isNAT |-> FALSE, err |-> "nil"]

----------------------------------------------------------------------------
(* The OS route functions of the darwin build: AddRoute, DeleteRoute,        *)
(* RouteExistsOS, and the agent's RouteExists.  A route is named by the peer *)
(* it leads to.                                                              *)

\* what the route(8) command of one call does:
\*   "ok"        it exits with status 0
\*   "conflict"  it reports "File exists" / "not in table" and exits with a failure status
\*   "fail"      it fails for another reason
RouteOutcomes(table, op, prefix) ==
    {"ok", "fail"} \cup
        (IF (op = "AddRoute" /\ prefix \in table) \/ (op = "DeleteRoute" /\ prefix \notin table)
         THEN {"conflict"} ELSE {})

\* RouteExistsOS of the darwin build
RouteExistsOS(prefix) == [exists |-> FALSE, err |-> "nil"]

\* RouteExistsUS (outside the sources at hand): whether the netstack holds the route
RouteExistsUS(table, prefix) == [exists |-> prefix \in table, err |-> "nil"]

\* ax.RouteExists: dispatch on userspaceMode
RouteExists(prefix) ==
    IF userspaceMode THEN RouteExistsUS(routesUS, prefix) ELSE RouteExistsOS(prefix)

\* SpecRoute: any sequence of calls of the route functions on a darwin node
InitRoute ==
    /\ wgPeers = <<>>
    /\ TunnelIP = "100.100.0.1"
    /\ ifaceAddr = TunnelIP
    /\ securityGroupId = ""
    /\ GOOS = Darwin
    /\ userspaceMode = FALSE
    /\ routesOS = {} /\ routesUS = {} /\ tunnels = {} /\ fwApplied = ""
    /\ newPeers = <<>> /\ firstTime = TRUE
    /\ calls = <<>> /\ err = "nil"
    /\ pc = "idle"
    /\ DriverIdle /\ ExitIdle /\ NatIdle /\ RouteIdle /\ OriginIdle /\ IfaceIdle /\ SgIdle /\ UserIdle /\ ExtraIdle

RouteFrame ==
    /\ UNCHANGED <<agentVars, routesUS, tunnels, fwApplied, passVars>>
    /\ UNCHANGED <<driverVars, exitVars, natVars, originVars, ifaceVars, sgVars, userVars, extraVars>>

AddRouteCall ==
    /\ \E prefix \in PeerKeys :
         \E outcome \in RouteOutcomes(routesOS, "AddRoute", prefix) :
           \E r \in {AddRoute(routesOS, prefix, outcome = "ok")} :
              /\ routesOS' = r.table
              /\ routeCall' = [op |-> "AddRoute", prefix |-> prefix,
                               installed |-> prefix \in routesOS,
                               outcome |-> outcome, err |-> r.err]
    /\ UNCHANGED routeQuery
    /\ RouteFrame

DeleteRouteCall ==
    /\ \E prefix \in PeerKeys :
         \E outcome \in RouteOutcomes(routesOS, "DeleteRoute", prefix) :
           \E r \in {DeleteRoute(routesOS, prefix, outcome = "ok")} :
              /\ routesOS' = r.table
              /\ routeCall' = [op |-> "DeleteRoute", prefix |-> prefix,
                               installed |-> prefix \in routesOS,
                               outcome |-> outcome, err |-> r.err]
    /\ UNCHANGED routeQuery
    /\ RouteFrame

RouteExistsCall ==
    /\ \E prefix \in PeerKeys :
         \E r \in {RouteExists(prefix)} :
            routeQuery' = [prefix |-> prefix, installed |-> prefix \in InstalledRoutes,
                           exists |-> r.exists, err |-> r.err]
    /\ UNCHANGED <<routesOS, routeCall>>
    /\ RouteFrame

NextRoute == AddRouteCall \/ DeleteRouteCall \/ RouteExistsCall

SpecRoute == InitRoute /\ [][NextRoute]_vars

\* C14 (idempotent route functions): AddRoute for a route that is installed and
\* DeleteRoute for a route that is not installed return no error and leave the routing
\* table unchanged, unless the command failed for an unexpected reason; an error is
\* returned only for such a failure.
C14_RouteIdempotence ==
    LET redundant == \/ routeCall.op = "AddRoute" /\ routeCall.installed
                     \/ routeCall.op = "DeleteRoute" /\ ~routeCall.installed
    IN  /\ (redundant /\ routeCall.outcome # "fail") =>
               /\ routeCall.err = "nil"
               /\ (routeCall.prefix \in routesOS) <=> routeCall.installed
        /\ (routeCall.op # "-" /\ routeCall.err # "nil") => routeCall.outcome = "fail"

\* C15 (queryable route existence): RouteExists(prefix) returns true exactly when a route
\* for the prefix is installed, and false otherwise, with no error.
C15_RouteExistsQueryable ==
    routeQuery.prefix # "-" =>
        /\ routeQuery.err = "nil"
        /\ routeQuery.exists <=> routeQuery.installed

----------------------------------------------------------------------------
(* The exit-node origin tracker: updateExitNodeOrigins.                      *)
(* nx == [exitNodeOrigins, exitNodeExists]                                   *)

\* the peers a call may pass
OriginPeers == {PeerConfig(k, e) : k \in Keys, e \in Endpoints}

\* the entries of the list that hold the key
OriginMatches(origins, key) == {i \in 1..Len(origins) : origins[i].PublicKey = key}

\* the entry the loop stops at: the first one with the key
FirstMatch(origins, key) ==
    CHOOSE i \in OriginMatches(origins, key) : \A j \in OriginMatches(origins, key) : i <= j

\* a variant that appends without looking for the key
updateExitNodeOriginsAppendOnly(nx, newPeer) ==
    [exitNodeOrigins |-> Append(nx.exitNodeOrigins, newPeer), exitNodeExists |-> TRUE]

updateExitNodeOrigins(nx, newPeer) ==
    IF OriginMatches(nx.exitNodeOrigins, newPeer.PublicKey) # {}
    THEN [exitNodeOrigins |->
              [nx.exitNodeOrigins EXCEPT
                  ![FirstMatch(nx.exitNodeOrigins, newPeer.PublicKey)].Endpoint = newPeer.Endpoint],
          exitNodeExists |-> TRUE]
    ELSE [exitNodeOrigins |-> Append(nx.exitNodeOrigins, newPeer), exitNodeExists |-> TRUE]

\* the history of the calls: the latest peer passed for each key, the keys passed again
Passed(newPeer) ==
    /\ originLast' = {p \in originLast : p.PublicKey # newPeer.PublicKey} \cup {newPeer}
    /\ originUpdated' =
          IF \E p \in originLast : p.PublicKey = newPeer.PublicKey
          THEN originUpdated \cup {newPeer.PublicKey} ELSE originUpdated

OriginFrame ==
    /\ UNCHANGED <<agentVars, nodeVars, passVars, driverVars, exitVars, natVars, routeVars, ifaceVars, sgVars, userVars, extraVars>>

\* SpecOrigins: any sequence of calls, one at a time, starting from an empty set
InitOrigins ==
    /\ PassIdle /\ pc = "idle"
    /\ DriverIdle /\ ExitIdle /\ NatIdle /\ RouteIdle /\ OriginIdle /\ IfaceIdle /\ SgIdle /\ UserIdle /\ ExtraIdle

UpdateOriginsCall ==
    /\ \E newPeer \in OriginPeers :
         \E nx \in {updateExitNodeOrigins([exitNodeOrigins |-> exitNodeOrigins,
                                           exitNodeExists |-> exitNodeExists], newPeer)} :
            /\ Len(nx.exitNodeOrigins) <= Cardinality(Keys) + 1
            /\ exitNodeOrigins' = nx.exitNodeOrigins
            /\ exitNodeExists' = nx.exitNodeExists
            /\ Passed(newPeer)
    /\ UNCHANGED originProcs
    /\ OriginFrame

NextOrigins == UpdateOriginsCall

SpecOrigins == InitOrigins /\ [][NextOrigins]_vars

\* C16 (origin set keyed by public key): after any sequence of calls starting from an
\* empty set, the set holds exactly one entry for each key ever passed and no other, the
\* endpoint of the entry is the endpoint of the latest call for the key, and
\* exitNodeExists is true once a call was made.
C16_OriginsKeyedByPublicKey ==
    /\ \A p \in originLast :
          /\ Cardinality(OriginMatches(exitNodeOrigins, p.PublicKey)) = 1
          /\ \A i \in OriginMatches(exitNodeOrigins, p.PublicKey) :
                exitNodeOrigins[i].Endpoint = p.Endpoint
    /\ \A i \in 1..Len(exitNodeOrigins) : exitNodeOrigins[i] \in originLast
    /\ exitNodeExists <=> originLast # {}

\* a key seen first and passed again holds the endpoint of its latest call, with other
\* keys behind it
C16_Witness ==
    /\ Len(exitNodeOrigins) > 2
    /\ exitNodeOrigins[1].PublicKey \in originUpdated
    /\ exitNodeOrigins[1].Endpoint = MaxEndpoint
    /\ exitNodeOrigins[2].PublicKey \notin originUpdated

----------------------------------------------------------------------------
(* SpecOriginsRace: two goroutines inside updateExitNodeOrigins at once.     *)
(* The function takes no lock, so its reads and writes of nx.exitNode        *)
(* interleave: each goroutine sets exitNodeExists, scans the list, and then  *)
(* either writes the endpoint of the entry it found or reads the list and    *)
(* stores the list with its peer appended.                                   *)

Entered(newPeer) == [pc |-> "called", newPeer |-> newPeer, found |-> 0, read |-> <<>>]

InitOriginsRace ==
    /\ PassIdle /\ pc = "idle"
    /\ DriverIdle /\ ExitIdle /\ NatIdle /\ RouteIdle /\ IfaceIdle /\ SgIdle /\ UserIdle /\ ExtraIdle
    /\ exitNodeOrigins \in {<<>>} \cup {<<p>> : p \in OriginPeers}
    /\ exitNodeExists = (exitNodeOrigins # <<>>)
    /\ originLast = {exitNodeOrigins[i] : i \in 1..Len(exitNodeOrigins)}
    /\ originUpdated = {}
    /\ originProcs \in [Goroutines -> {Entered(p) : p \in OriginPeers}]

\* nx.exitNode.exitNodeExists = true
OriginBegin(g) ==
    /\ originProcs[g].pc = "called"
    /\ exitNodeExists' = TRUE
    /\ originProcs' = [originProcs EXCEPT ![g].pc = "scan"]
    /\ UNCHANGED <<exitNodeOrigins, originLast, originUpdated>>
    /\ OriginFrame

\* for i, existingPeerConfig := range nx.exitNode.exitNodeOrigins { ... break }
OriginScan(g) ==
    /\ originProcs[g].pc = "scan"
    /\ LET key == originProcs[g].newPeer.PublicKey
       IN  originProcs' =
              IF OriginMatches(exitNodeOrigins, key) # {}
              THEN [originProcs EXCEPT ![g].pc = "update",
                                       ![g].found = FirstMatch(exitNodeOrigins, key)]
              ELSE [originProcs EXCEPT ![g].pc = "append"]
    /\ UNCHANGED <<exitNodeOrigins, exitNodeExists, originLast, originUpdated>>
    /\ OriginFrame

\* nx.exitNode.exitNodeOrigins[i].Endpoint = newPeer.Endpoint
OriginUpdate(g) ==
    /\ originProcs[g].pc = "update"
    /\ exitNodeOrigins' = [exitNodeOrigins EXCEPT
                              ![originProcs[g].found].Endpoint = originProcs[g].newPeer.Endpoint]
    /\ originProcs' = [originProcs EXCEPT ![g].pc = "done"]
    /\ UNCHANGED <<exitNodeExists, originLast, originUpdated>>
    /\ OriginFrame

\* append(nx.exitNode.exitNodeOrigins, newPeer): the read of the list
OriginAppendRead(g) ==
    /\ originProcs[g].pc = "append"
    /\ originProcs' = [originProcs EXCEPT ![g].pc = "store", ![g].read = exitNodeOrigins]
    /\ UNCHANGED <<exitNodeOrigins, exitNodeExists, originLast, originUpdated>>
    /\ OriginFrame

\* nx.exitNode.exitNodeOrigins = append(...): the store of the appended list
OriginAppendStore(g) ==
    /\ originProcs[g].pc = "store"
    /\ exitNodeOrigins' = Append(originProcs[g].read, originProcs[g].newPeer)
    /\ originProcs' = [originProcs EXCEPT ![g].pc = "done"]
    /\ UNCHANGED <<exitNodeExists, originLast, originUpdated>>
    /\ OriginFrame

NextOriginsRace ==
    \E g \in Goroutines :
        \/ OriginBegin(g)
        \/ OriginScan(g)
        \/ OriginUpdate(g)
        \/ OriginAppendRead(g)
        \/ OriginAppendStore(g)

SpecOriginsRace == InitOriginsRace /\ [][NextOriginsRace]_vars

----------------------------------------------------------------------------
(* SpecIface: one interface setup, setupLinuxInterface or setupDarwinIface. *)
(* Each RunCommand is logged with its outcome; the environment decides      *)
(* which commands fail.                                                     *)

\* what the commands of one setup answer, and the two inputs setupLinuxInterface reads
IfaceEnvs ==
    [exists : BOOLEAN, hubRouter : BOOLEAN, deleteOk : BOOLEAN, createOk : BOOLEAN,
     listenOk : BOOLEAN, addressOk : BOOLEAN, flushOk : BOOLEAN, readdOk : BOOLEAN,
     upOk : BOOLEAN]

Ran(cmd, ok) == [cmd |-> cmd, ok |-> ok]

\* setupLinuxInterface: delete the interface if it exists, create it, set the listen
\* port (the well-known one on a hub router), assign the address (flushing and
\* retrying once on failure), bring the link up.  Every failure is logged and the
\* function goes on; it returns nothing.
setupLinuxInterface(env) ==
    [log |->
        (IF env.exists THEN <<Ran("ip link del", env.deleteOk)>> ELSE <<>>)
        \o <<Ran("ip link add", env.createOk)>>
        \o <<Ran(IF env.hubRouter THEN "wg set listen-port WgDefaultPort"
                                  ELSE "wg set listen-port listenPort", env.listenOk)>>
        \o <<Ran("ip address add", env.addressOk)>>
        \o (IF env.addressOk THEN <<>>
            ELSE <<Ran("ip address del", env.flushOk), Ran("ip address add", env.readdOk)>>)
        \o <<Ran("ip link set up", env.upOk)>>,
     err |-> "none"]

\* setupDarwinIface: create the interface, assign the address, bring it up, set the
\* private key.  Every failure is logged and the function goes on; it returns nil.
setupDarwinIface(env) ==
    [log |-> <<Ran("wireguard-go", env.createOk),
               Ran("ifconfig inet alias", env.addressOk),
               Ran("ifconfig up", env.upOk),
               Ran("wg set private-key", env.listenOk)>>,
     err |-> "nil"]

DarwinEnvs ==
    {e \in IfaceEnvs : ~e.exists /\ ~e.hubRouter /\ e.deleteOk /\ e.flushOk /\ e.readdOk}

InitIface ==
    /\ PassIdle /\ pc = "idle"
    /\ DriverIdle /\ ExitIdle
    /\ NatIdle /\ RouteIdle /\ OriginIdle /\ SgIdle /\ UserIdle /\ ExtraIdle
    /\ ifaceRun = NoIfaceRun

IfaceFrame ==
    UNCHANGED <<agentVars, nodeVars, passVars, driverVars, exitVars,
                natVars, routeVars, originVars, sgVars, userVars, extraVars>>

SetupLinuxCall ==
    /\ ifaceRun = NoIfaceRun
    /\ \E env \in IfaceEnvs :
         \E r \in {setupLinuxInterface(env)} :
            ifaceRun' = [os |-> Linux, log |-> r.log, err |-> r.err]
    /\ IfaceFrame

SetupDarwinCall ==
    /\ ifaceRun = NoIfaceRun
    /\ \E env \in DarwinEnvs :
         \E r \in {setupDarwinIface(env)} :
            ifaceRun' = [os |-> Darwin, log |-> r.log, err |-> r.err]
    /\ IfaceFrame

NextIface == SetupLinuxCall \/ SetupDarwinCall

SpecIface == InitIface /\ [][NextIface]_vars

CreateCmds == {"ip link add", "wireguard-go"}
CreateFailedAt(log, i) == log[i].cmd \in CreateCmds /\ ~log[i].ok

\* C19 (interface creation failure is fatal): a setup whose create command failed
\* returns an error to its caller and issued no command after the failed create.
C19_CreateFailureFatal ==
    \A i \in 1..Len(ifaceRun.log) :
        CreateFailedAt(ifaceRun.log, i) =>
            /\ ifaceRun.err \notin {"nil", "none"}
            /\ i = Len(ifaceRun.log)

----------------------------------------------------------------------------
(* SpecSg: the security group handed over by the control plane and the step *)
(* of a pass that applies it.  The translator is the contract               *)
(* ApplyRules(securityGroup) -> error: one firewall rule per (direction,    *)
(* protocol, port range, ip range), the rule set of the group replacing the *)
(* one installed before; an unrecognized protocol fails the whole apply and *)
(* leaves the installed rules as they were.                                 *)

SgRule(dir, proto, port, ranges) ==
    [direction |-> dir, protocol |-> proto, port |-> port, ipRanges |-> ranges]

SgRuleUniverse ==
    {SgRule("inbound", "tcp", "22", {"192.168.1.0/24"}),
     SgRule("inbound", "tcp", "22", {"192.168.1.0/24", "10.0.0.1"}),
     SgRule("outbound", "udp", "53", {"10.0.0.1-10.0.0.9"}),
     SgRule("inbound", "bogus", "22", {"10.0.0.1"}),
     SgRule("outbound", "tcp", "443", {"10.0.0.9-10.0.0.1/33"})}

SgRuleSets == SUBSET SgRuleUniverse

Protocols == {"tcp", "udp"}

\* the ip ranges that are an exact address, a CIDR or a "start-end" range
WellFormedRanges == {"192.168.1.0/24", "10.0.0.1", "10.0.0.1-10.0.0.9"}

Translatable(r) == r.protocol \in Protocols /\ r.ipRanges \subseteq WellFormedRanges

FwRule(r, ip) ==
    [direction |-> r.direction, protocol |-> r.protocol, port |-> r.port, ip |-> ip]

\* the firewall rules of a rule set: one per (direction, protocol, port range, ip range)
Derived(R) == UNION {{FwRule(r, ip) : ip \in r.ipRanges} : r \in R}

\* ApplyRules: fails as a whole on an unrecognized protocol, a malformed range or a
\* failing firewall command, the installed rules staying as they were; otherwise the
\* installed rules are replaced by those of the group
ApplyRules(installed, R, cmdOk) ==
    IF \E r \in R : r.protocol \notin Protocols
    THEN [fw |-> installed, err |-> "unrecognized protocol"]
    ELSE IF \E r \in R : ~(r.ipRanges \subseteq WellFormedRanges)
    THEN [fw |-> installed, err |-> "malformed range"]
    ELSE IF ~cmdOk THEN [fw |-> installed, err |-> "firewall command failed"]
    ELSE [fw |-> Derived(R), err |-> "nil"]

InitSg ==
    /\ PassIdle /\ pc = "idle"
    /\ DriverIdle /\ ExitIdle
    /\ NatIdle /\ RouteIdle /\ OriginIdle /\ IfaceIdle /\ UserIdle /\ ExtraIdle
    /\ SgIdle

SgFrame ==
    /\ UNCHANGED <<wgPeers, TunnelIP, ifaceAddr, userspaceMode>>
    /\ UNCHANGED <<nodeVars, passVars, driverVars, exitVars>>
    /\ UNCHANGED <<natVars, routeVars, originVars, ifaceVars, userVars, extraVars>>

\* the control plane hands over the node's platform-independent input: the assigned
\* security group (none: the empty id) and its rules
AssignGroup ==
    /\ \E id \in {"", "sg1"}, os \in {Linux, Darwin} :
         /\ securityGroupId' = id
         /\ GOOS' = IF sgPc = "idle" THEN os ELSE GOOS
         /\ sgRules' \in IF id = "" THEN {{}} ELSE SgRuleSets
    /\ sgPc' = "assigned"
    /\ UNCHANGED <<sgInstalled, sgPrevInstalled, sgErr>>
    /\ SgFrame

\* a variant that drops the error of the translator
PassErrorDropped(e) == "nil"

\* if err := ax.processSecurityGroupRules(); err != nil { return err }
PassError(e) == e

\* the security-group step of a pass
SecurityGroupStep ==
    /\ sgPc # "idle"
    /\ sgPc' = "applied"
    /\ sgPrevInstalled' = sgInstalled
    /\ IF SecurityGroupEnabled
       THEN \E cmdOk \in BOOLEAN :
              \E r \in {ApplyRules(sgInstalled, sgRules, cmdOk)} :
                 /\ sgInstalled' = r.fw
                 /\ sgErr' = PassError(r.err)
       ELSE /\ sgErr' = "nil"
            /\ UNCHANGED sgInstalled
    /\ UNCHANGED <<securityGroupId, GOOS, sgRules>>
    /\ SgFrame

NextSg == AssignGroup \/ SecurityGroupStep

SpecSg == InitSg /\ [][NextSg]_vars

----------------------------------------------------------------------------
(* API server: createUserIfNotExists and createUserOrgIfNotExists, one      *)
(* database or IPAM operation per step.  A frame is one request inside the  *)
(* function: [pc, id, userName, user, sg, org, orgId, err]; the result of a *)
(* step is the database and the frame after it.  `out` tells which of the   *)
(* operations the environment lets succeed.                                 *)

UserId == "u1"
UserNames == {"alice", "alice2"}

defaultOrganizationPrefixIPv4 == "100.100.0.0/16"
defaultOrganizationPrefixIPv6 == "200::/64"

UserOutcomes ==
    [findOk : BOOLEAN, undeleteOk : BOOLEAN, renameOk : BOOLEAN, createUserOk : BOOLEAN,
     orgFindOk : BOOLEAN, sgOk : BOOLEAN, orgCreateOk : BOOLEAN, nsOk : BOOLEAN,
     v4Ok : BOOLEAN, v6Ok : BOOLEAN, sgUpdateOk : BOOLEAN]

AllSucceed ==
    [findOk |-> TRUE, undeleteOk |-> TRUE, renameOk |-> TRUE, createUserOk |-> TRUE,
     orgFindOk |-> TRUE, sgOk |-> TRUE, orgCreateOk |-> TRUE, nsOk |-> TRUE,
     v4Ok |-> TRUE, v6Ok |-> TRUE, sgUpdateOk |-> TRUE]

MinOf(S) == CHOOSE i \in S : \A j \in S : i <= j

\* tx.Unscoped().First(&user, "id = ?", id): soft-deleted records included
FindUserUnscoped(d, id) ==
    LET S == {i \in 1..Len(d.users) : d.users[i].ID = id}
    IN  IF S = {} THEN NoUser ELSE d.users[MinOf(S)]

\* db.First(&user, "id = ?", id): soft-deleted records are not seen
FindUser(d, id) ==
    LET S == {i \in 1..Len(d.users) : d.users[i].ID = id /\ ~d.users[i].Deleted}
    IN  IF S = {} THEN NoUser ELSE d.users[MinOf(S)]

\* api.db.Where("owner_id = ?", userId).First(&org)
FindOrgOfOwner(d, owner) ==
    LET S == {i \in 1..Len(d.orgs) : d.orgs[i].OwnerID = owner}
    IN  IF S = {} THEN NoOrg ELSE d.orgs[MinOf(S)]

Entry(id, userName) == [NoUserFrame EXCEPT !.pc = "find", !.id = id, !.userName = userName]
Goto(f, to) == [f EXCEPT !.pc = to]
ReturnOrg(f, orgId) == [f EXCEPT !.pc = "done", !.orgId = orgId, !.err = "nil"]
ReturnErr(f, e) == [f EXCEPT !.pc = "done", !.orgId = uuidNil, !.err = e]
At(d, f) == [db |-> d, f |-> f]

\* lines 53-54, 76-78
StepFind(d, f, out) ==
    IF ~out.findOk THEN At(d, ReturnErr(f, "can't find record for user id"))
    ELSE LET u == FindUserUnscoped(d, f.id)
         IN  IF u # NoUser THEN At(d, [Goto(f, "undelete") EXCEPT !.user = u])
             ELSE At(d, Goto(f, "create"))

\* a variant that leaves the deletion mark
StepUndeleteSkipped(d, f, out) == At(d, Goto(f, "rename"))

\* lines 57-63: tx.Unscoped().Model(&user).Update("DeletedAt", ...)
StepUndelete(d, f, out) ==
    IF ~f.user.Deleted THEN At(d, Goto(f, "rename"))
    ELSE IF ~out.undeleteOk THEN At(d, ReturnErr(f, "update DeletedAt"))
    ELSE At([d EXCEPT !.users = [i \in 1..Len(@) |->
                                    IF @[i].ID = f.id THEN [@[i] EXCEPT !.Deleted = FALSE]
                                    ELSE @[i]]],
            [Goto(f, "rename") EXCEPT !.user.Deleted = FALSE])

\* lines 66-71: tx.Model(&user).Update("UserName", userName), soft-deleted records
\* are not touched
StepRename(d, f, out) ==
    IF f.user.UserName = f.userName THEN At(d, Goto(f, "orgfind"))
    ELSE IF ~out.renameOk THEN At(d, ReturnErr(f, "update UserName"))
    ELSE At([d EXCEPT !.users = [i \in 1..Len(@) |->
                                    IF @[i].ID = f.id /\ ~@[i].Deleted
                                    THEN [@[i] EXCEPT !.UserName = f.userName]
                                    ELSE @[i]]],
            [Goto(f, "orgfind") EXCEPT !.user.UserName = f.userName])

\* lines 79-87: tx.Create(&user); the id is the primary key
StepCreateUser(d, f, out) ==
    IF FindUserUnscoped(d, f.id) # NoUser THEN At(d, Goto(f, "refind"))
    ELSE IF ~out.createUserOk THEN At(d, ReturnErr(f, "can't create user record"))
    ELSE LET u == [ID |-> f.id, UserName |-> f.userName, Deleted |-> FALSE]
         IN  At([d EXCEPT !.users = Append(@, u)], [Goto(f, "orgfind") EXCEPT !.user = u])

\* lines 90-95
StepRefindUser(d, f, out) ==
    IF FindUserUnscoped(d, f.id) # NoUser THEN At(d, Goto(f, "orgfind"))
    ELSE At(d, ReturnErr(f, "can't create user record"))

\* lines 101-108
StepFindOrg(d, f, out) ==
    IF ~out.orgFindOk THEN At(d, ReturnErr(f, "find organization"))
    ELSE LET org == FindOrgOfOwner(d, f.id)
         IN  IF org # NoOrg THEN At(d, ReturnOrg(f, org.ID))
             ELSE At(d, Goto(f, "sgcreate"))

\* lines 110-113: createDefaultSecurityGroup(ctx, uuid.Nil.String())
StepCreateSg(d, f, out) ==
    IF ~out.sgOk THEN At(d, ReturnErr(f, "failed to create the default security group"))
    ELSE LET sg == [ID |-> <<"sg", Len(d.sgs) + 1>>, OrganizationId |-> uuidNil,
                    Default |-> TRUE]
         IN  At([d EXCEPT !.sgs = Append(@, sg)], [Goto(f, "orgcreate") EXCEPT !.sg = sg])

\* lines 115-127, 149-151: api.db.Create(&org); "duplicated key not allowed" when the
\* owner's organization is there already
StepCreateOrg(d, f, out) ==
    IF FindOrgOfOwner(d, f.id) # NoOrg THEN At(d, Goto(f, "orgrefind"))
    ELSE IF ~out.orgCreateOk
    THEN At(d, ReturnErr(f, "can't create organization record"))
    ELSE LET org == [ID |-> <<"org", Len(d.orgs) + 1>>, OwnerID |-> f.id,
                     Name |-> f.userName, SecurityGroupIds |-> f.sg.ID]
         IN  At([d EXCEPT !.orgs = Append(@, org)], [Goto(f, "namespace") EXCEPT !.org = org])

\* lines 129-131
StepNamespace(d, f, out) ==
    IF ~out.nsOk THEN At(d, ReturnErr(f, "failed to create ipam namespace"))
    ELSE At([d EXCEPT !.ns = @ \cup {f.org.ID}], Goto(f, "prefix4"))

\* lines 132-134
StepPrefix4(d, f, out) ==
    IF ~out.v4Ok THEN At(d, ReturnErr(f, "can't assign default ipam v4 prefix"))
    ELSE At([d EXCEPT !.prefixes = @ \cup {<<f.org.ID, defaultOrganizationPrefixIPv4>>}],
            Goto(f, "prefix6"))

\* lines 135-137
StepPrefix6(d, f, out) ==
    IF ~out.v6Ok THEN At(d, ReturnErr(f, "can't assign default ipam v6 prefix"))
    ELSE At([d EXCEPT !.prefixes = @ \cup {<<f.org.ID, defaultOrganizationPrefixIPv6>>}],
            Goto(f, "sgupdate"))

\* lines 139-146: updateDefaultSecurityGroupOrgId(ctx, sg.ID, org.ID)
StepUpdateSg(d, f, out) ==
    IF f.sg.OrganizationId = f.org.SecurityGroupIds THEN At(d, ReturnOrg(f, f.org.ID))
    ELSE IF ~out.sgUpdateOk
    THEN At(d, ReturnErr(f, "failed to create the default security group"))
    ELSE At([d EXCEPT !.sgs = [i \in 1..Len(@) |->
                                  IF @[i].ID = f.sg.ID
                                  THEN [@[i] EXCEPT !.OrganizationId = f.org.ID]
                                  ELSE @[i]]],
            ReturnOrg(f, f.org.ID))

\* a variant without the second look for the organization
StepRefindOrgGivesUp(d, f, out) ==
    At(d, ReturnErr(f, "can't create organization record"))

\* lines 153-159
StepRefindOrg(d, f, out) ==
    LET org == FindOrgOfOwner(d, f.id)
    IN  IF org # NoOrg THEN At(d, ReturnOrg(f, org.ID))
        ELSE At(d, ReturnErr(f, "can't create organization record"))

UserStep(d, f, out) ==
    CASE f.pc = "find"      -> StepFind(d, f, out)
      [] f.pc = "undelete"  -> StepUndelete(d, f, out)
      [] f.pc = "rename"    -> StepRename(d, f, out)
      [] f.pc = "create"    -> StepCreateUser(d, f, out)
      [] f.pc = "refind"    -> StepRefindUser(d, f, out)
      [] f.pc = "orgfind"   -> StepFindOrg(d, f, out)
      [] f.pc = "sgcreate"  -> StepCreateSg(d, f, out)
      [] f.pc = "orgcreate" -> StepCreateOrg(d, f, out)
      [] f.pc = "namespace" -> StepNamespace(d, f, out)
      [] f.pc = "prefix4"   -> StepPrefix4(d, f, out)
      [] f.pc = "prefix6"   -> StepPrefix6(d, f, out)
      [] f.pc = "sgupdate"  -> StepUpdateSg(d, f, out)
      [] f.pc = "orgrefind" -> StepRefindOrg(d, f, out)
      [] OTHER              -> At(d, f)

RECURSIVE RunToReturn(_, _, _)
RunToReturn(d, f, out) ==
    IF f.pc = "done" THEN At(d, f)
    ELSE LET r == UserStep(d, f, out) IN RunToReturn(r.db, r.f, out)

\* createUserIfNotExists(ctx, id, userName) run alone: (uuid, error) and the database
createUserIfNotExists(d, id, userName, out) ==
    RunToReturn(d, Entry(id, userName), out)

----------------------------------------------------------------------------
(* SpecUser: authenticated API calls of one user, one after the other.      *)
(* Every route of the private group runs the CreateUserIfNotExists          *)
(* middleware before its handler.                                           *)

\* a call stops at its first failing operation: one failing operation at most
OneFailure ==
    {o \in UserOutcomes :
        Cardinality({k \in DOMAIN o : ~o[k]}) <= 1}

\* CreateUserIfNotExists(): the middleware aborts the request with 500 on an error
Middleware(d, id, userName, out) ==
    LET r == createUserIfNotExists(d, id, userName, out)
    IN  [db |-> r.db, orgId |-> r.f.orgId, err |-> r.f.err,
         status |-> IF r.f.err # "nil" THEN "500" ELSE "next"]

\* ListUsers: the caller's own record, soft-deleted records not seen
ListUsers(d, id) ==
    [status |-> "200", users |-> {u \in {d.users[i] : i \in 1..Len(d.users)} :
                                     u.ID = id /\ ~u.Deleted}]

\* DeleteUser: 404 when the caller's record is not found, else the record is
\* soft-deleted
DeleteUser(d, id) ==
    IF FindUser(d, id) = NoUser THEN [db |-> d, status |-> "404"]
    ELSE [db |-> [d EXCEPT !.users = [i \in 1..Len(@) |->
                                        IF @[i].ID = id THEN [@[i] EXCEPT !.Deleted = TRUE]
                                        ELSE @[i]]],
          status |-> "200"]

\* the security groups of an organization
ListSecurityGroups(d, orgId) ==
    {g \in {d.sgs[i] : i \in 1..Len(d.sgs)} : g.OrganizationId = orgId}

\* CreateSecurityGroup for an organization: 201 and the stored group
CreateSecurityGroup(d, orgId) ==
    [db |-> [d EXCEPT !.sgs = Append(@, [ID |-> <<"sg", Len(d.sgs) + 1>>,
                                         OrganizationId |-> orgId, Default |-> FALSE])],
     status |-> "201"]

InitUser ==
    /\ PassIdle /\ pc = "idle"
    /\ DriverIdle /\ ExitIdle
    /\ NatIdle /\ RouteIdle /\ OriginIdle /\ IfaceIdle /\ SgIdle
    /\ UserIdle /\ ExtraIdle

UserFrame ==
    UNCHANGED <<agentVars, nodeVars, passVars, driverVars, exitVars,
                natVars, routeVars, originVars, ifaceVars, sgVars, extraVars>>

Answered(op, userName, m, status) ==
    [op |-> op, userName |-> userName, was |-> FindUserUnscoped(db, UserId),
     orgId |-> m.orgId, err |-> m.err, status |-> status,
     afterDelete |-> userLast.op = "delete" /\ userLast.status = "200"]

\* GET /users with the user's token
ListUsersRequest ==
    /\ userCalls < MaxCalls
    /\ userCalls' = userCalls + 1
    /\ \E userName \in UserNames, out \in OneFailure :
         \E m \in {Middleware(db, UserId, userName, out)} :
            /\ db' = m.db
            /\ userLast' = Answered("list", userName, m,
                                    IF m.status = "500" THEN "500"
                                    ELSE ListUsers(m.db, UserId).status)
    /\ UNCHANGED userProcs
    /\ UserFrame

\* DELETE /users/:id with the user's token and the user's own id
DeleteUserRequest ==
    /\ userCalls < MaxCalls
    /\ userCalls' = userCalls + 1
    /\ \E userName \in UserNames, out \in OneFailure :
         \E m \in {Middleware(db, UserId, userName, out)} :
            IF m.status = "500"
            THEN /\ db' = m.db
                 /\ userLast' = Answered("delete", userName, m, "500")
            ELSE \E r \in {DeleteUser(m.db, UserId)} :
                    /\ db' = r.db
                    /\ userLast' = Answered("delete", userName, m, r.status)
    /\ UNCHANGED userProcs
    /\ UserFrame

\* POST /organizations/:organization/security_groups for an existing organization
CreateSecurityGroupRequest ==
    /\ userCalls < MaxCalls
    /\ userCalls' = userCalls + 1
    /\ \E i \in 1..Len(db.orgs) :
         \E r \in {CreateSecurityGroup(db, db.orgs[i].ID)} :
            /\ db' = r.db
            /\ userLast' = [NoUserCall EXCEPT !.op = "create group", !.status = r.status,
                                              !.orgId = db.orgs[i].ID]
    /\ UNCHANGED userProcs
    /\ UserFrame

NextUser == ListUsersRequest \/ DeleteUserRequest \/ CreateSecurityGroupRequest

SpecUser == InitUser /\ [][NextUser]_vars

Orgs == {db.orgs[i] : i \in 1..Len(db.orgs)}
CreatedGroups(orgId) == {g \in ListSecurityGroups(db, orgId) : ~g.Default}

\* C25 (one default security group per organization): the security groups listed for
\* an organization are the n groups created in it and one more, the default group
\* created with the organization.
C25_OneDefaultSecurityGroup ==
    \A org \in Orgs :
        Cardinality(ListSecurityGroups(db, org.ID))
            = Cardinality(CreatedGroups(org.ID)) + 1

\* C26 (a deleted account is not served): the authenticated request that follows a
\* user's successful deletion of their own account does not succeed.
C26_DeletedUserRejected ==
    (userLast.afterDelete /\ userLast.op = "list") => userLast.status # "200"

C29_IpamReadyOnReturn ==
    (userLast.op \in {"list", "delete"} /\ userLast.err = "nil") =>
        /\ userLast.orgId \in db.ns
        /\ <<userLast.orgId, defaultOrganizationPrefixIPv4>> \in db.prefixes
        /\ <<userLast.orgId, defaultOrganizationPrefixIPv6>> \in db.prefixes

----------------------------------------------------------------------------
(* SpecUserRace: the first requests of one user arriving at the same time,  *)
(* each inside createUserIfNotExists, their database operations interleaved *)
(* in any order.  No operation fails.                                       *)

InitUserRace == InitUser

\* a request enters createUserIfNotExists
UserEnter(g) ==
    /\ userProcs[g].pc = "idle"
    /\ \E userName \in UserNames :
         userProcs' = [userProcs EXCEPT ![g] = Entry(UserId, userName)]
    /\ UNCHANGED <<db, userLast, userCalls>>
    /\ UserFrame

\* the next database or IPAM operation of a request
UserAdvance(g) ==
    /\ userProcs[g].pc \notin {"idle", "done"}
    /\ \E r \in {UserStep(db, userProcs[g], AllSucceed)} :
         /\ db' = r.db
         /\ userProcs' = [userProcs EXCEPT ![g] = r.f]
    /\ UNCHANGED <<userLast, userCalls>>
    /\ UserFrame

NextUserRace == \E g \in Goroutines : UserEnter(g) \/ UserAdvance(g)

SpecUserRace == InitUserRace /\ [][NextUserRace]_vars

AllReturned == \A g \in Goroutines : userProcs[g].pc = "done"
Quiet == \A g \in Goroutines : userProcs[g].pc \in {"idle", "done"}

\* C27 (concurrent first requests are safe): when all the concurrent calls for one
\* user id have returned, each returned no error and the same organization id, and
\* there is one user record with the id and one organization owned by the user.
C27_ConcurrentFirstRequests ==
    AllReturned =>
        /\ \A g \in Goroutines : userProcs[g].err = "nil"
        /\ \A g, h \in Goroutines : userProcs[g].orgId = userProcs[h].orgId
        /\ Cardinality({i \in 1..Len(db.users) : db.users[i].ID = UserId}) = 1
        /\ Cardinality({i \in 1..Len(db.orgs) : db.orgs[i].OwnerID = UserId}) = 1

\* both calls found no organization and went on to create one
C27_Witness ==
    /\ AllReturned
    /\ Len(db.sgs) > 1
    /\ \A g \in Goroutines : userProcs[g].orgId # uuidNil

\* C30 (no leaked default security groups): whenever no call is in progress, as many
\* default security groups have been created as organizations, and the default
\* security group an organization references carries that organization's id.
C30_NoLeakedSecurityGroups ==
    Quiet =>
        /\ Cardinality({i \in 1..Len(db.sgs) : db.sgs[i].Default}) = Len(db.orgs)
        /\ \A org \in Orgs :
              \A i \in 1..Len(db.sgs) :
                  db.sgs[i].ID = org.SecurityGroupIds => db.sgs[i].OrganizationId = org.ID

----------------------------------------------------------------------------
(* Frame properties of a later pass, of the origin tracker and of the STUN   *)
(* probe                                                                     *)

\* the keys newPeers names on an entry with an Id
NamedKeys == {newPeers[j].PublicKey : j \in {n \in 1..Len(newPeers) : newPeers[n].Id # ""}}

\* C36 (frame of a later pass): a pass with firstTime = false makes a route or tunnel
\* update only for a key of the cached configuration that newPeers names on an entry
\* with a non-empty Id; nothing is installed for any other key, and the configuration
\* the pass was given is the configuration it leaves.
C36_LaterPassFrame ==
    /\ (Returned /\ ~firstTime) =>
          /\ \A i \in PeerPositions(calls) : calls[i].key \in NamedKeys \cap CfgKeys
          /\ routesOS \cup routesUS \subseteq NamedKeys \cap CfgKeys
          /\ \A t \in tunnels : t.PublicKey \in NamedKeys \cap CfgKeys
    /\ (pc = "call" /\ ~firstTime) =>
          \A out \in Outcomes :
              DeployWireguardConfig(AxState(wgPeers), newPeers, firstTime, out).ax.Peers
                  = wgPeers

\* a later pass that was handed an entry without an Id for a cached key and an entry
\* with an Id for another cached key updated the second and not the first
C36_Witness ==
    /\ Returned /\ ~firstTime /\ err = "nil"
    /\ \E j \in 1..Len(newPeers) :
          /\ newPeers[j].Id = ""
          /\ newPeers[j].PublicKey \in CfgKeys \ NamedKeys
          /\ ~Updated(newPeers[j].PublicKey)
    /\ \E k \in NamedKeys \cap CfgKeys : Updated(k) /\ k \in routesOS \cup routesUS

\* C37 (frame and idempotence of updateExitNodeOrigins): on every set the tracker can
\* hold and for every peer, a call for a key in the set changes the Endpoint of the
\* first entry with the key and nothing else, a call for a key not in the set appends
\* the peer at the end, a second identical call changes nothing, and no call shortens
\* the set or clears exitNodeExists.
C37_OriginsFrame ==
    \A newPeer \in OriginPeers :
        LET nx  == [exitNodeOrigins |-> exitNodeOrigins, exitNodeExists |-> exitNodeExists]
            r   == updateExitNodeOrigins(nx, newPeer)
            old == nx.exitNodeOrigins
            new == r.exitNodeOrigins
            hit == OriginMatches(old, newPeer.PublicKey)
        IN  /\ r.exitNodeExists
            /\ Len(new) >= Len(old)
            /\ hit # {} =>
                  /\ Len(new) = Len(old)
                  /\ \A i \in 1..Len(old) :
                        /\ new[i].PublicKey = old[i].PublicKey
                        /\ i # FirstMatch(old, newPeer.PublicKey) => new[i] = old[i]
                  /\ new[FirstMatch(old, newPeer.PublicKey)].Endpoint = newPeer.Endpoint
            /\ hit = {} => new = Append(old, newPeer)
            /\ updateExitNodeOrigins(r, newPeer) = r

\* a set of several entries whose last entry has had its endpoint overwritten in place
C37_Witness ==
    /\ Len(exitNodeOrigins) > 1
    /\ exitNodeOrigins[Len(exitNodeOrigins)].PublicKey \in originUpdated
    /\ exitNodeOrigins[Len(exitNodeOrigins)].Endpoint = MaxEndpoint
    /\ exitNodeExists

\* C38 (a nil error carries an address): when IsNAT returns no error, the public
\* address GetPubIPv4 gave it is not empty.
C38_PublicAddressNotEmpty ==
    (pc = "return" /\ natResult.err = "nil") => GetPubIPv4(natEnv).ip # ""

----------------------------------------------------------------------------
(* API authorization policy (package token)                                  *)

MaxScopes == 2        \* scope names a token's scope string may carry

\* the resources the policy names, and two path[1] values it does not
ScopedResources == {"organizations", "invitations", "devices", "users", "security_groups"}
ListedResources == ScopedResources \cup {"fflags"}
Paths == ListedResources \cup {"metrics", ""}
ReadMethods == {"GET"}
WriteMethods == {"POST", "PATCH", "DELETE", "PUT"}
Methods == ReadMethods \cup WriteMethods \cup {"HEAD"}

\* scope names: one read and one write scope per resource. The scope claim is the
\* set of names in the token's scope string: no name of this set is a substring of
\* another, so the substring test of contains() is membership.
ReadScopes == {"read:organizations", "read:invitations", "read:devices", "read:users",
               "read:security_groups"}
WriteScopes == {"write:organizations", "write:invitations", "write:devices", "write:users",
                "write:security_groups"}
ScopeNames == ReadScopes \cup WriteScopes
contains(scope, name) == name \in scope

Emails == {"user@redhat.com", "user@example.com"}
endswithRedhat(email) == email \in {"user@redhat.com"}

\* an access token: whether io.jwt.decode_verify accepts its signature and audience,
\* and the claims of its payload
Tokens ==
    [verified : BOOLEAN, from_google : BOOLEAN, email : Emails,
     scope : {S \in SUBSET ScopeNames : Cardinality(S) <= MaxScopes}]
PolicyInputs == [path1 : Paths, method : Methods, token : Tokens]

token_payload(input) == input.token

allowed_email(input) ==
    \/ token_payload(input).from_google /\ endswithRedhat(token_payload(input).email)
    \/ ~token_payload(input).from_google

\* a policy that takes any decodable token as valid
valid_token_unverified(input) == allowed_email(input)

valid_token(input) == input.token.verified /\ allowed_email(input)

action_is_read(input) == input.method \in {"GET"}
action_is_write(input) == input.method \in {"POST", "PATCH", "DELETE", "PUT"}

\* one pair of rules of the policy: resource, read scope, write scope
ScopedRule(input, resource, readScope, writeScope) ==
    \/ /\ resource = input.path1
       /\ action_is_read(input)
       /\ valid_token(input)
       /\ contains(token_payload(input).scope, readScope)
    \/ /\ resource = input.path1
       /\ action_is_write(input)
       /\ valid_token(input)
       /\ contains(token_payload(input).scope, writeScope)

allow(input) ==
    \/ ScopedRule(input, "organizations", "read:organizations", "write:organizations")
    \/ ScopedRule(input, "invitations", "read:organizations", "write:organizations")
    \/ ScopedRule(input, "devices", "read:devices", "write:devices")
    \/ ScopedRule(input, "users", "read:users", "write:users")
    \/ ScopedRule(input, "security_groups", "read:organizations", "write:organizations")
    \/ "fflags" = input.path1 /\ valid_token(input)

InitPolicy ==
    /\ PassIdle /\ pc = "idle"
    /\ DriverIdle /\ ExitIdle
    /\ NatIdle /\ RouteIdle /\ OriginIdle /\ IfaceIdle /\ SgIdle /\ UserIdle
    /\ OidcIdle
    /\ polInput \in PolicyInputs
    /\ polResult = NoDecision

AllowQuery ==
    /\ ~polResult.ran
    /\ polResult' = [ran |-> TRUE, allow |-> allow(polInput)]
    /\ UNCHANGED <<agentVars, nodeVars, passVars, driverVars, exitVars, natVars, routeVars,
                   originVars, ifaceVars, sgVars, userVars, oidcVars, polInput>>

NextPolicy == AllowQuery

SpecPolicy == InitPolicy /\ [][NextPolicy]_vars

\* what the token must be for any request to be allowed
TokenAccepted ==
    /\ polInput.token.verified
    /\ polInput.token.from_google => polInput.token.email = "user@redhat.com"

\* the scope named after the resource itself
OwnScope(kind, resource) ==
    CASE kind = "read" /\ resource = "organizations" -> "read:organizations"
      [] kind = "read" /\ resource = "invitations" -> "read:invitations"
      [] kind = "read" /\ resource = "devices" -> "read:devices"
      [] kind = "read" /\ resource = "users" -> "read:users"
      [] kind = "read" /\ resource = "security_groups" -> "read:security_groups"
      [] kind = "write" /\ resource = "organizations" -> "write:organizations"
      [] kind = "write" /\ resource = "invitations" -> "write:invitations"
      [] kind = "write" /\ resource = "devices" -> "write:devices"
      [] kind = "write" /\ resource = "users" -> "write:users"
      [] kind = "write" /\ resource = "security_groups" -> "write:security_groups"

\* the scope that governs a resource: invitations and security groups are governed by
\* the scopes of organizations
GoverningScope(kind, resource) ==
    IF resource \in {"invitations", "security_groups"}
    THEN OwnScope(kind, "organizations")
    ELSE OwnScope(kind, resource)

\* C33 as stated (authorization by the resource's own scope): an allowed request has an
\* accepted token and a listed resource, and on a scoped resource it is a GET with the
\* read scope of that resource or a write method with the write scope of that resource.
C33_AllowByOwnScope ==
    (polResult.ran /\ polResult.allow) =>
        /\ TokenAccepted
        /\ polInput.path1 \in ListedResources
        /\ polInput.path1 \in ScopedResources =>
              \/ /\ polInput.method = "GET"
                 /\ OwnScope("read", polInput.path1) \in polInput.token.scope
              \/ /\ polInput.method \in WriteMethods
                 /\ OwnScope("write", polInput.path1) \in polInput.token.scope

\* C33 (authorization policy, by the governing scope): an allowed request has an
\* accepted token and a listed resource; on a scoped resource it is a GET whose token
\* carries the governing read scope or a POST/PATCH/DELETE/PUT whose token carries the
\* governing write scope, so a token without write scopes is never allowed a write
\* method there; every other path, and every other method on a scoped resource, is
\* denied. Every request the rules describe is allowed.
C33_AllowByGoverningScope ==
    polResult.ran =>
        /\ polResult.allow <=>
              /\ TokenAccepted
              /\ \/ polInput.path1 = "fflags"
                 \/ /\ polInput.path1 \in ScopedResources
                    /\ \/ /\ polInput.method = "GET"
                          /\ GoverningScope("read", polInput.path1) \in polInput.token.scope
                       \/ /\ polInput.method \in WriteMethods
                          /\ GoverningScope("write", polInput.path1) \in polInput.token.scope
        /\ ( /\ polInput.token.scope \cap WriteScopes = {}
             /\ polInput.path1 \in ScopedResources
             /\ polInput.method \in WriteMethods ) => ~polResult.allow

\* a DELETE on security_groups allowed to a token that carries write:organizations and
\* no scope named after security groups
C33_Witness ==
    /\ polResult.ran /\ polResult.allow
    /\ polInput.path1 = "security_groups" /\ polInput.method = "DELETE"
    /\ polInput.token.scope = {"write:organizations"}
    /\ polInput.token.from_google

----------------------------------------------------------------------------
(* OIDC agent (package oidcagent): web login, refresh and logout             *)

MaxRequests == 3      \* requests one browser session makes

StateValues == {"s1", "s2"}
NonceValues == {"n1", "n2"}

\* the query of the callback URL a LoginEnd request carries
Callbacks ==
    [state : {""} \cup StateValues, code : {"", "c1"},
     error : {"", "login_required", "access_denied"}, refresh : {""}]

\* what the identity provider and the libraries answer during one request: the step
\* that fails ("none" when none does) and the nonce inside the id_token
LoginEndFailures == {"bind", "parse", "exchange", "noidtoken", "verify", "tojson", "save"}
LoginEndOutcomes ==
    [fail : {"none", "tojson", "save"}, idNonce : NonceValues]
        \cup [fail : LoginEndFailures \ {"tojson", "save"}, idNonce : {"n1"}]
RefreshOutcomes == [fail : {"none", "bind", "parse", "token", "tojson", "save"}, idNonce : {""}]
LogoutOutcomes == [fail : {"none", "save", "logouturl"}, idNonce : {""}]

\* an answer of a handler: the status written, the session and cookies left
Reply(status, loggedIn, sess, ck) ==
    [status |-> status, loggedIn |-> loggedIn, session |-> sess, cookies |-> ck]

isLoggedIn(sess) == sess.token # "none"

LoginStart(sess, ck, state, nonce) ==
    Reply("200", FALSE, sess, [state |-> state, nonce |-> nonce])

\* a comparison of nonces that never finds a difference
NonceNeverDiffers(idTokenNonce, nonce) == FALSE

\* idToken.Nonce != nonce
NonceDiffers(idTokenNonce, nonce) == idTokenNonce # nonce

\* the branch of LoginEnd that handles an authorization callback
LoginEndHandleAuth(sess, ck, in, out) ==
    LET noState == [ck EXCEPT !.state = "none"]
        noBoth  == [noState EXCEPT !.nonce = "none"]
    IN  IF ck.state = "none" THEN Reply("500", FALSE, sess, ck)
        ELSE IF in.state # ck.state THEN Reply("400", FALSE, sess, noState)
        ELSE IF ck.nonce = "none" THEN Reply("500", FALSE, sess, noState)
        ELSE IF out.fail = "exchange" THEN Reply("500", FALSE, sess, noBoth)
        ELSE IF out.fail = "noidtoken" THEN Reply("500", FALSE, sess, noBoth)
        ELSE IF out.fail = "verify" THEN Reply("500", FALSE, sess, noBoth)
        ELSE IF NonceDiffers(out.idNonce, ck.nonce) THEN Reply("400", FALSE, sess, noBoth)
        ELSE IF out.fail = "tojson" THEN Reply("400", FALSE, sess, noBoth)
        ELSE IF out.fail = "save" THEN Reply("500", FALSE, sess, noBoth)
        ELSE Reply("200", TRUE, [token |-> "login", id_token |-> "login"], noBoth)

LoginEnd(sess, ck, in, out) ==
    IF out.fail = "bind" THEN Reply("400", FALSE, sess, ck)
    ELSE IF out.fail = "parse" THEN Reply("400", FALSE, sess, ck)
    ELSE IF in.state # "" /\ in.error # ""
    THEN Reply(IF in.error = "login_required" THEN "401" ELSE "400", FALSE, sess, ck)
    ELSE IF in.state # "" /\ in.code # ""
    THEN LoginEndHandleAuth(sess, ck, in, out)
    ELSE Reply("200", isLoggedIn(sess), sess, ck)

Refresh(sess, ck, in, out) ==
    LET ok == sess.token # "none"
    IN  IF out.fail = "bind" THEN Reply("400", FALSE, sess, ck)
        ELSE IF ~ok /\ in.refresh = "" THEN Reply("401", FALSE, sess, ck)
        ELSE IF ok /\ out.fail = "parse" THEN Reply("500", FALSE, sess, ck)
        ELSE IF out.fail = "token" THEN Reply("500", FALSE, sess, ck)
        ELSE IF out.fail = "tojson" THEN Reply("400", FALSE, sess, ck)
        ELSE IF out.fail = "save" THEN Reply("500", FALSE, sess, ck)
        ELSE Reply("200", TRUE, [sess EXCEPT !.token = "refreshed"], ck)

Logout(sess, ck, out) ==
    IF sess.id_token = "none" THEN Reply("401", FALSE, sess, ck)
    ELSE IF out.fail = "save" THEN Reply("500", FALSE, sess, ck)
    ELSE IF out.fail = "logouturl" THEN Reply("500", FALSE, NoSession, ck)
    ELSE Reply("200", FALSE, NoSession, ck)

CheckAuth(sess, ck) == Reply("200", isLoggedIn(sess), sess, ck)

InitOidc ==
    /\ PassIdle /\ pc = "idle"
    /\ DriverIdle /\ ExitIdle
    /\ NatIdle /\ RouteIdle /\ OriginIdle /\ IfaceIdle /\ SgIdle /\ UserIdle
    /\ PolIdle /\ OidcIdle

OidcFrame ==
    UNCHANGED <<agentVars, nodeVars, passVars, driverVars, exitVars, natVars, routeVars,
                originVars, ifaceVars, sgVars, userVars, polVars>>

\* the handler has answered: its effects and the record of the request
OidcAnswered(op, in, out, r) ==
    /\ oidcCalls < MaxRequests
    /\ oidcCalls' = oidcCalls + 1
    /\ session' = r.session
    /\ cookies' = r.cookies
    /\ oidcLast' = [op |-> op, status |-> r.status, loggedIn |-> r.loggedIn,
                    before |-> session, sent |-> cookies, in |-> in, out |-> out]
    /\ OidcFrame

LoginStartRequest ==
    \E state \in StateValues, nonce \in NonceValues :
        OidcAnswered("LoginStart", NoCallback, NoOidcOutcome,
                     LoginStart(session, cookies, state, nonce))

LoginEndRequest ==
    \E in \in Callbacks, out \in LoginEndOutcomes :
        OidcAnswered("LoginEnd", in, out, LoginEnd(session, cookies, in, out))

RefreshRequest ==
    \E refresh \in {"", "r1"}, out \in RefreshOutcomes :
        LET in == [NoCallback EXCEPT !.refresh = refresh]
        IN  OidcAnswered("Refresh", in, out, Refresh(session, cookies, in, out))

LogoutRequest ==
    \E out \in LogoutOutcomes :
        OidcAnswered("Logout", NoCallback, out, Logout(session, cookies, out))

CheckAuthRequest ==
    OidcAnswered("CheckAuth", NoCallback, NoOidcOutcome, CheckAuth(session, cookies))

NextOidc ==
    \/ LoginStartRequest
    \/ LoginEndRequest
    \/ RefreshRequest
    \/ LogoutRequest
    \/ CheckAuthRequest

SpecOidc == InitOidc /\ [][NextOidc]_vars

\* the last request was a LoginEnd
LastLoginEnd == oidcLast.op = "LoginEnd" /\ oidcLast.out.fail \notin {"bind", "parse"}
ErrorStatus == {"400", "401", "500"}

\* every check of the callback passed: it carries a code and the state of the state
\* cookie, the provider exchanged the code for an id_token that verifies, and the
\* id_token carries the nonce of the nonce cookie
FullyVerified ==
    /\ oidcLast.in.error = ""
    /\ oidcLast.in.code # ""
    /\ oidcLast.in.state # ""
    /\ oidcLast.in.state = oidcLast.sent.state
    /\ oidcLast.sent.nonce # "none"
    /\ oidcLast.out.fail \notin {"exchange", "noidtoken", "verify"}
    /\ oidcLast.out.idNonce = oidcLast.sent.nonce

\* a callback with a state and a code, one of whose checks failed
HandledCheckFailed ==
    /\ oidcLast.in.state # "" /\ oidcLast.in.code # "" /\ oidcLast.in.error = ""
    /\ ~FullyVerified

\* C34 as stated (any error callback is refused): LoginEnd changes the session only
\* after every check passed, and on a failed check or on any callback that carries an
\* error it answers with an error status and leaves the session unchanged.
C34_LoginEndRefusesEveryError ==
    LastLoginEnd =>
        /\ session # oidcLast.before => FullyVerified
        /\ (HandledCheckFailed \/ oidcLast.in.error # "") =>
              oidcLast.status \in ErrorStatus /\ session = oidcLast.before

\* C34 (credentials stored only after full verification): LoginEnd changes the session
\* only after every check passed, and then it holds the token and the id_token of that
\* login; on a failed check, or on a callback that carries an error together with a
\* state, it answers with an error status and leaves the session unchanged; a callback
\* without a state is answered 200 with the session unchanged, error or not.
C34_StoredOnlyAfterVerification ==
    LastLoginEnd =>
        /\ session # oidcLast.before =>
              /\ FullyVerified
              /\ session = [token |-> "login", id_token |-> "login"]
              /\ oidcLast.status = "200"
        /\ (HandledCheckFailed \/ (oidcLast.in.error # "" /\ oidcLast.in.state # "")) =>
              oidcLast.status \in ErrorStatus /\ session = oidcLast.before
        /\ oidcLast.in.state = "" =>
              oidcLast.status = "200" /\ session = oidcLast.before

\* a login completed on an empty session, and the session holds both credentials
C34_Witness ==
    /\ LastLoginEnd /\ FullyVerified /\ oidcLast.status = "200"
    /\ oidcLast.before = NoSession
    /\ session = [token |-> "login", id_token |-> "login"]

\* C35 (logout is available to a logged-in session): a Logout request on a session for
\* which CheckAuth reports logged_in=true, with no failing operation during the request,
\* answers 200 and leaves neither token nor id_token, so CheckAuth reports false after.
C35_LogoutAvailable ==
    ( /\ oidcLast.op = "Logout"
      /\ isLoggedIn(oidcLast.before)
      /\ oidcLast.out.fail = "none" ) =>
        /\ oidcLast.status = "200"
        /\ session = NoSession
        /\ ~CheckAuth(session, cookies).loggedIn

----------------------------------------------------------------------------
(* SpecHandlers: the user handlers, called by two users one request after   *)
(* the other.  The database has the table user_organizations as well; a     *)
(* response is the sequence of the bodies the handler writes.               *)

Callers == {"u1", "u2"}
CallerName(caller) == IF caller = "u1" THEN "alice" ELSE "bob"
\* the values of the path parameter id
IdParams == Callers \cup {"me", ""}

HandlersDb ==
    [users |-> <<>>, orgs |-> <<>>, sgs |-> <<>>, ns |-> {}, prefixes |-> {},
     members |-> {}]

UsersOf(d) == {d.users[i] : i \in 1..Len(d.users)}
OrgsOf(d) == {d.orgs[i] : i \in 1..Len(d.orgs)}

\* a scope that lets every row through
UserIsAnyUser(caller, u) == TRUE

\* UserIsCurrentUser: db.Where("id = ?", userId), userId the authenticated user
UserIsCurrentUser(caller, u) == u.ID = caller

\* Scopes(api.UserIsCurrentUser(c)).First(&user, "id = ?", userId)
FirstCurrentUser(d, caller, userId) ==
    LET S == {i \in 1..Len(d.users) :
                /\ UserIsCurrentUser(caller, d.users[i])
                /\ d.users[i].ID = userId
                /\ ~d.users[i].Deleted}
    IN  IF S = {} THEN NoUser ELSE d.users[MinOf(S)]

\* what a handler did: the database after it, the bodies it wrote in order with the
\* user records in them, and how it ended
Handled(d, writes, body, ending) ==
    [db |-> d, writes |-> writes, body |-> body, ending |-> ending]

GetUserHandler(d, caller, id) ==
    IF id = "" THEN Handled(d, <<"400">>, {}, "bad parameter")
    ELSE LET userId == IF id = "me" THEN caller ELSE id
             user == FirstCurrentUser(d, caller, userId)
         IN  IF user = NoUser THEN Handled(d, <<"404">>, {}, "user not found")
             ELSE Handled(d, <<"200">>, {user}, "ok")

ListUsersHandler(d, caller, findOk) ==
    IF ~findOk THEN Handled(d, <<"500">>, {}, "find failed")
    ELSE Handled(d, <<"200">>,
                 {u \in UsersOf(d) : UserIsCurrentUser(caller, u) /\ ~u.Deleted}, "ok")

\* Select(clause.Associations).Delete(&user): the record is soft-deleted and its rows
\* of user_organizations go
DeleteWithAssociations(d, userId) ==
    [d EXCEPT !.users = [i \in 1..Len(@) |->
                            IF @[i].ID = userId THEN [@[i] EXCEPT !.Deleted = TRUE]
                            ELSE @[i]],
              !.members = {m \in @ : m[1] # userId}]

DeleteUserHandler(d, caller, userID, deleteOk) ==
    IF userID = "" THEN Handled(d, <<"400">>, {}, "bad parameter")
    ELSE LET user == FirstCurrentUser(d, caller, userID)
         IN  IF user = NoUser THEN Handled(d, <<"404">>, {}, "user not found")
             ELSE IF ~deleteOk
             THEN Handled(d, <<"500", "200">>, {user}, "delete failed")
             ELSE Handled(DeleteWithAssociations(d, userID), <<"200">>, {user}, "ok")

DeleteUserFromOrganization(d, userID, orgID, deleteOk) ==
    IF userID = "" THEN Handled(d, <<"400">>, {}, "bad parameter")
    ELSE LET user == FindUser(d, userID)
         IN  IF user = NoUser THEN Handled(d, <<"404", "500">>, {}, "user not found")
             ELSE IF orgID \notin {o.ID : o \in OrgsOf(d)}
             THEN Handled(d, <<"404">>, {}, "organization not found")
             ELSE IF ~deleteOk
             THEN Handled(d, <<"500", "200">>, {user}, "delete failed")
             ELSE Handled([d EXCEPT !.members = @ \ {<<userID, orgID>>}],
                          <<"200">>, {user}, "ok")

\* what the middleware of the private group meets: no failing operation, or a failing
\* lookup of the user
MiddlewareOutcomes == {AllSucceed, [AllSucceed EXCEPT !.findOk = FALSE]}

\* api.db.Create(&org) with Users: the owner's row of user_organizations
WithOwners(before, after) ==
    [after EXCEPT !.members =
        @ \cup {<<o.OwnerID, o.ID>> : o \in OrgsOf(after) \ OrgsOf(before)}]

InitHandlers ==
    /\ PassIdle /\ pc = "idle"
    /\ DriverIdle /\ ExitIdle
    /\ NatIdle /\ RouteIdle /\ OriginIdle /\ IfaceIdle /\ SgIdle /\ ExtraIdle
    /\ db = HandlersDb /\ userLast = NoUserCall /\ userCalls = 0
    /\ userProcs = [g \in Goroutines |-> NoUserFrame]

\* a request of the private group: the middleware, then the handler when the
\* middleware did not abort
Routed(op, caller, id, org, mwOut, r) ==
    /\ userCalls < MaxCalls
    /\ userCalls' = userCalls + 1
    /\ db' = r.db
    /\ userLast' = [op |-> op, caller |-> caller, id |-> id, org |-> org,
                    before |-> db, writes |-> r.writes, body |-> r.body,
                    ending |-> r.ending]
    /\ UNCHANGED userProcs
    /\ UserFrame

Aborted(d) == Handled(d, <<"500">>, {}, "middleware")

GetUserCall ==
    \E caller \in Callers, id \in IdParams, mwOut \in MiddlewareOutcomes :
        \E m \in {Middleware(db, caller, CallerName(caller), mwOut)} :
            Routed("GetUser", caller, id, uuidNil, mwOut,
                   IF m.status = "500" THEN Aborted(WithOwners(db, m.db))
                   ELSE GetUserHandler(WithOwners(db, m.db), caller, id))

ListUsersCall ==
    \E caller \in Callers, findOk \in BOOLEAN, mwOut \in MiddlewareOutcomes :
        \E m \in {Middleware(db, caller, CallerName(caller), mwOut)} :
            Routed("ListUsers", caller, "", uuidNil, mwOut,
                   IF m.status = "500" THEN Aborted(WithOwners(db, m.db))
                   ELSE ListUsersHandler(WithOwners(db, m.db), caller, findOk))

DeleteUserCall ==
    \E caller \in Callers, id \in IdParams, deleteOk \in BOOLEAN,
       mwOut \in MiddlewareOutcomes :
        \E m \in {Middleware(db, caller, CallerName(caller), mwOut)} :
            Routed("DeleteUser", caller, id, uuidNil, mwOut,
                   IF m.status = "500" THEN Aborted(WithOwners(db, m.db))
                   ELSE DeleteUserHandler(WithOwners(db, m.db), caller, id, deleteOk))

DeleteUserFromOrganizationCall ==
    \E caller \in Callers, id \in Callers \cup {""}, deleteOk \in BOOLEAN,
       org \in {o.ID : o \in OrgsOf(db)} \cup {<<"org", 0>>},
       mwOut \in MiddlewareOutcomes :
        \E m \in {Middleware(db, caller, CallerName(caller), mwOut)} :
            Routed("DeleteUserFromOrganization", caller, id, org, mwOut,
                   IF m.status = "500" THEN Aborted(WithOwners(db, m.db))
                   ELSE DeleteUserFromOrganization(WithOwners(db, m.db), id, org, deleteOk))

NextHandlers ==
    \/ GetUserCall
    \/ ListUsersCall
    \/ DeleteUserCall
    \/ DeleteUserFromOrganizationCall

SpecHandlers == InitHandlers /\ [][NextHandlers]_vars

\* the last request was one of the three scoped handlers and reached its handler
ScopedRequest ==
    /\ userLast.op \in {"GetUser", "ListUsers", "DeleteUser"}
    /\ userLast.ending # "middleware"

\* C31 (user isolation): a request of GetUser, ListUsers or DeleteUser authenticated as
\* one user returns no record of the other user and leaves the other user's record as
\* it was; GetUser and DeleteUser answer 404 for the other user's id, and GetUser for
\* "me" answers with the caller's own record.
C31_UserIsolation ==
    userLast.op \in {"GetUser", "ListUsers", "DeleteUser"} =>
        \A v \in Callers \ {userLast.caller} :
            /\ FindUserUnscoped(db, v) = FindUserUnscoped(userLast.before, v)
            /\ \A u \in userLast.body : u.ID = userLast.caller /\ u.ID # v
            /\ (ScopedRequest /\ userLast.op # "ListUsers" /\ userLast.id = v) =>
                  userLast.writes = <<"404">>
            /\ (ScopedRequest /\ userLast.op = "GetUser" /\ userLast.id = "me") =>
                  /\ userLast.writes = <<"200">>
                  /\ userLast.body = {FindUser(db, userLast.caller)}

\* a DELETE for the id of the other user, whose record exists, was answered 404
C31_Witness ==
    /\ userLast.op = "DeleteUser" /\ ScopedRequest
    /\ userLast.id \in Callers \ {userLast.caller}
    /\ FindUser(userLast.before, userLast.id) # NoUser
    /\ FindUser(db, userLast.id) # NoUser
    /\ userLast.writes = <<"404">>

\* C32 (one response per request): DeleteUser and DeleteUserFromOrganization write one
\* response: only a 500 when the database delete fails and only a 404 when the user is
\* not found.
C32_OneResponse ==
    (userLast.op \in {"DeleteUser", "DeleteUserFromOrganization"}) =>
        /\ Len(userLast.writes) = 1
        /\ userLast.ending = "delete failed" => userLast.writes = <<"500">>
        /\ userLast.ending = "user not found" => userLast.writes = <<"404">>

====
